---- MODULE Spec2Model ----
(***************************************************************************)
(* AlphaLens: signal detection (FinancialAgent) and strategy backtesting   *)
(* (StrategyBacktest).                                                     *)
(*                                                                         *)
(* One behaviour is one call of a backtest_*_strategy coroutine on a       *)
(* request and on the indicator-augmented DataFrame df that                *)
(* get_stock_data + calculate_technical_indicators hand to it.             *)
(*                                                                         *)
(* Encoding of Python values:                                              *)
(*   Optional / NaN : <<>> is None (or NaN), <<v>> is the value v          *)
(*   float          : integers; signal strengths are in thousandths        *)
(*                    (0.6 is 600), ratios are exact pairs [num, den]      *)
(*   datetime       : the number of days since 2024-01-01                  *)
(*   date string    : the triple <<year, month, day>> that strftime prints *)
(***************************************************************************)
EXTENDS Integers, Sequences, FiniteSets, TLC

VARIABLES
    request,        \* BacktestRequest
    df,             \* DataFrame with technical indicators (sequence of rows)
    pc,             \* position of the coroutine
    i,              \* loop index of the day-by-day run (0-based, as in the code)
    signal_data,    \* detect_trading_signals_for_backtest(df)
    eligible_signals,
    day_signals,    \* the eligible signals dated current_date
    k,              \* index of the signal of day_signals handled next (1-based)
    position,       \* None or the open position
    capital,
    trades,
    trade_id,
    buys,           \* history: number of buys accepted so far
    result,         \* None until the coroutine returns, then the BacktestResult
    \* the signal detector run on its own (calculate_technical_indicators, then
    \* detect_trading_signals / detect_trading_signals_for_backtest)
    prices,         \* two price series <<a, b>> that agree up to index cut
    cut,            \* last index (0-based) on which the two series agree
    frames,         \* None, or the two series with their indicators
    scans,          \* None, or detect_trading_signals_for_backtest of each frame
    latest_signals, \* None, or detect_trading_signals of each frame
    spc,            \* position of the detector run
    \* FinancialAgent.batch_analyze_stocks
    stock_codes,    \* the stock codes to analyse
    max_concurrent,
    semaphore,      \* asyncio.Semaphore(max_concurrent): the permits left
    task,           \* the analyze_one task of each index of stock_codes
    done_queue,     \* asyncio.as_completed: the finished tasks not yet consumed
    results,
    completed,
    bpc,            \* position of batch_analyze_stocks
    \* FinancialAgent.recommend_stocks, from the return of the batch on
    analyses,       \* what batch_analyze_stocks returned
    rec_request,    \* max_stocks and min_recommendation_score
    recommendations_data,
    recommendations,
    rpc,            \* position of recommend_stocks
    \* process_trace_task, NewsTraceAgent.trace_news and cancel_trace_task,
    \* for one task id
    task_status,    \* tasks[task_id]["status"]
    task_result,    \* tasks[task_id]["result"]
    task_cancelled, \* task_cancelled: None while it has no entry for task_id
    max_iterations,
    iteration,
    all_messages,
    last_tool_call_count,
    trace_outcome,  \* None, or how the call of trace_news ended
    cancel_point,   \* history: the check point that found the flag set
    tpc,            \* position of process_trace_task
    \* FinancialAgent.get_stock_data, one call
    akshare_available,
    max_retries,
    attempt,
    fetch_log,      \* history: what ak.stock_zh_a_hist did at each attempt
    slept,          \* history: the calls of time.sleep
    fetched,        \* None until the call returns, then the DataFrame
    fpc             \* position of get_stock_data

backtest_vars == <<request, df, pc, i, signal_data, eligible_signals, day_signals, k,
                   position, capital, trades, trade_id, buys, result>>

detector_vars == <<prices, cut, frames, scans, latest_signals, spc>>

batch_vars == <<stock_codes, max_concurrent, semaphore, task, done_queue, results,
                completed, bpc>>

rec_vars == <<analyses, rec_request, recommendations_data, recommendations, rpc>>

trace_vars == <<task_status, task_result, task_cancelled, max_iterations, iteration,
                all_messages, last_tool_call_count, trace_outcome, cancel_point, tpc>>

fetch_vars == <<akshare_available, max_retries, attempt, fetch_log, slept, fetched, fpc>>

(* What a backtest run leaves alone *)
aux == <<detector_vars, batch_vars, rec_vars, trace_vars, fetch_vars>>

(* What a detector run leaves alone *)
detector_aux == <<backtest_vars, batch_vars, rec_vars, trace_vars, fetch_vars>>

(* What a batch analysis leaves alone *)
batch_aux == <<backtest_vars, detector_vars, rec_vars, trace_vars, fetch_vars>>

(* What a recommendation leaves alone *)
rec_aux == <<backtest_vars, detector_vars, batch_vars, trace_vars, fetch_vars>>

(* What a tracing task leaves alone *)
trace_aux == <<backtest_vars, detector_vars, batch_vars, rec_vars, fetch_vars>>

(* What a call of get_stock_data leaves alone *)
fetch_aux == <<backtest_vars, detector_vars, batch_vars, rec_vars, trace_vars>>

vars == <<backtest_vars, aux>>

-----------------------------------------------------------------------------
(* Bounds of the model *)

MaxTail == 2        \* rows after the 30 warm-up rows
MaxCommon == 1      \* detector run: rows after the base that both series share
MaxFuture == 1      \* detector run: rows of each series after the shared part
MaxStocks == 3      \* batch analysis: stock codes in one call
MaxDepth == 1       \* news tracing: max_depth of the request
MaxRetries == 3     \* get_stock_data: max_retries of the call

-----------------------------------------------------------------------------
(* Program constants *)

MinPoints == 30             \* len(df) < 30 guards
ScanStart == 30             \* range(30, len(df))
LotSize == 100              \* shares must be a multiple of 100
Window == 5                 \* window: int = 5
OversoldThreshold == 30     \* oversold_threshold
OverboughtThreshold == 70   \* overbought_threshold
ShortWindow == 5            \* rolling(window=5)
LongWindow == 30            \* rolling(window=30)
RsiPeriod == 14             \* rolling(window=14)
FastSpan == 12              \* ewm(span=12)
SlowSpan == 26              \* ewm(span=26)
SignalSpan == 9             \* ewm(span=9)
DefaultMaxConcurrent == 3   \* max_concurrent: int = 3
DefaultMaxStocks == 10      \* max_stocks: int = 10
DefaultMinScore == 500000   \* min_recommendation_score: float = 0.5, in millionths

-----------------------------------------------------------------------------
(* Optional values and NaN *)

None == <<>>
NaN == <<>>
Some(v) == <<v>>
Val(x) == x[1]
notna(x) == x # <<>>

Abs(x) == IF x < 0 THEN -x ELSE x
Min(a, b) == IF a < b THEN a ELSE b

(* Exact ratios num/den, den > 0 *)
Rat(n, d) == [num |-> n, den |-> d]
RECURSIVE Gcd(_, _)
Gcd(a, b) == IF b = 0 THEN a ELSE Gcd(b, a % b)
Reduced(r) ==
    LET g == Gcd(Abs(r.num), r.den) IN [num |-> r.num \div g, den |-> r.den \div g]
RatLess(a, b) == Reduced(a).num * Reduced(b).den < Reduced(b).num * Reduced(a).den
RatEq(a, b) == Reduced(a) = Reduced(b)

-----------------------------------------------------------------------------
(* Dates: datetime <-> '%Y-%m-%d' text, within the year 2024 *)

DaysInMonth(m) ==
    CASE m = 2 -> 29
      [] m \in {4, 6, 9, 11} -> 30
      [] OTHER -> 31

RECURSIVE MonthDay(_, _)
MonthDay(n, m) ==
    IF n < DaysInMonth(m) THEN <<2024, m, n + 1>>
    ELSE MonthDay(n - DaysInMonth(m), m + 1)

(* date.strftime('%Y-%m-%d') *)
strftime(n) == MonthDay(n, 1)

RECURSIVE DaysBefore(_)
DaysBefore(m) == IF m = 1 THEN 0 ELSE DaysBefore(m - 1) + DaysInMonth(m - 1)

(* datetime.strptime(s, '%Y-%m-%d') *)
strptime(s) == DaysBefore(s[2]) + s[3] - 1

-----------------------------------------------------------------------------
(* Sequence helpers *)

RECURSIVE SumSeq(_)
SumSeq(s) == IF s = <<>> THEN 0 ELSE Head(s) + SumSeq(Tail(s))

RECURSIVE Flatten(_)
Flatten(ss) == IF ss = <<>> THEN <<>> ELSE Head(ss) \o Flatten(Tail(ss))

(* df.iloc[a:b] for 0 <= a, b <= len: rows a .. b-1 (0-based) *)
iloc(d, a, b) == SubSeq(d, a + 1, b)
(* df.iloc[j] *)
Row(d, j) == d[j + 1]

-----------------------------------------------------------------------------
(* Comparisons of pandas values: any comparison with NaN is False *)

Gt(a, b) == notna(a) /\ notna(b) /\ Val(a) > Val(b)
Lt(a, b) == notna(a) /\ notna(b) /\ Val(a) < Val(b)
Ge(a, b) == notna(a) /\ notna(b) /\ Val(a) >= Val(b)
Le(a, b) == notna(a) /\ notna(b) /\ Val(a) <= Val(b)

Last(d) == d[Len(d)]

-----------------------------------------------------------------------------
(* FinancialAgent: signal strength helpers *)

Reason(parts, value) == [text |-> parts, value |-> value]

Signal(type, strength, reason, date, used) ==
    [signal_type |-> type, signal_strength |-> strength, signal_reason |-> reason,
     signal_date |-> date, indicators_used |-> used]

(* _calculate_rsi_signal_strength; rsi_value is a number *)
RsiSignalStrength(rsi_value, signal_type) ==
    IF signal_type = "buy" /\ rsi_value < 20 THEN 900
    ELSE IF signal_type = "buy" /\ rsi_value < 25 THEN 800
    ELSE IF signal_type = "buy" /\ rsi_value < 30 THEN 600 + (30 - rsi_value) * 20
    ELSE IF signal_type = "sell" /\ rsi_value > 80 THEN 900
    ELSE IF signal_type = "sell" /\ rsi_value > 75 THEN 800
    ELSE IF signal_type = "sell" /\ rsi_value > 70 THEN 600 + (rsi_value - 70) * 20
    ELSE 500

(* latest['volume'] > recent['volume'].mean() * pct/100, rows a non-empty slice *)
VolumeAbove(latest, rows, pct) ==
    latest.volume * Len(rows) * 100 > SumSeq([j \in 1..Len(rows) |-> rows[j].volume]) * pct

(* _calculate_ma_cross_strength(df, window) *)
MaCrossStrength(d, window) ==
    IF Len(d) < window + 1 THEN 500
    ELSE
      LET latest == Last(d)
          recent == iloc(d, Len(d) - window - 1, Len(d) - 1)
          vol == IF Len(recent) > 0
                 THEN IF VolumeAbove(latest, recent, 120) THEN 150
                      ELSE IF VolumeAbove(latest, recent, 110) THEN 100 ELSE 0
                 ELSE 0
          trend == IF Len(recent) >= 3
                      /\ 100 * Abs(latest.close - recent[1].close) > 2 * recent[1].close
                   THEN 100 ELSE 0
          sep == IF notna(latest.ma5) /\ notna(latest.ma30)
                 THEN LET gap == 100 * Abs(Val(latest.ma5) - Val(latest.ma30))
                      IN IF gap > 5 * Val(latest.ma30) THEN 100
                         ELSE IF gap > 3 * Val(latest.ma30) THEN 50 ELSE 0
                 ELSE 0
      IN Min(500 + vol + trend + sep, 1000)

(* _check_rsi_divergence(df, window) -> (has_divergence, divergence_type) *)
CheckRsiDivergence(d, window) ==
    IF Len(d) < window + 1 THEN <<FALSE, "">>
    ELSE
      LET recent == iloc(d, Len(d) - window - 1, Len(d))
          first == recent[1]
          last == Last(recent)
          dprice == last.close - first.close     \* price_change * first.close
          rsi_ok == notna(last.rsi) /\ notna(first.rsi)
          rsi_change == IF rsi_ok THEN Val(last.rsi) - Val(first.rsi) ELSE 0
      IN IF 100 * dprice < -2 * first.close /\ rsi_ok /\ rsi_change > 5
           THEN <<TRUE, "bullish">>
         ELSE IF 100 * dprice > 2 * first.close /\ rsi_ok /\ rsi_change < -5
           THEN <<TRUE, "bearish">>
         ELSE <<FALSE, "">>

LatestRsiSignals_Uncapped(latest, div) ==
    IF ~notna(latest.rsi) THEN <<>>
    ELSE IF Val(latest.rsi) < 30 THEN
      LET base == RsiSignalStrength(Val(latest.rsi), "buy")
          strength == IF div[1] /\ div[2] = "bullish" THEN base + 150 ELSE base
      IN << Signal("buy", strength,
                   Reason(IF div[1] THEN <<"RSI oversold", "bullish divergence">>
                          ELSE <<"RSI oversold">>, latest.rsi),
                   strftime(latest.date), <<"RSI">>) >>
    ELSE IF Val(latest.rsi) > 70 THEN
      LET base == RsiSignalStrength(Val(latest.rsi), "sell")
          strength == IF div[1] /\ div[2] = "bearish" THEN base + 150 ELSE base
      IN << Signal("sell", strength,
                   Reason(IF div[1] THEN <<"RSI overbought", "bearish divergence">>
                          ELSE <<"RSI overbought">>, latest.rsi),
                   strftime(latest.date), <<"RSI">>) >>
    ELSE <<>>

(* detect_trading_signals, rule 3: RSI oversold/overbought on the latest row *)
LatestRsiSignals(latest, div) ==
    IF ~notna(latest.rsi) THEN <<>>
    ELSE IF Val(latest.rsi) < 30 THEN
      LET base == RsiSignalStrength(Val(latest.rsi), "buy")
          strength == IF div[1] /\ div[2] = "bullish" THEN Min(base + 150, 1000) ELSE base
      IN << Signal("buy", strength,
                   Reason(IF div[1] THEN <<"RSI oversold", "bullish divergence">>
                          ELSE <<"RSI oversold">>, latest.rsi),
                   strftime(latest.date), <<"RSI">>) >>
    ELSE IF Val(latest.rsi) > 70 THEN
      LET base == RsiSignalStrength(Val(latest.rsi), "sell")
          strength == IF div[1] /\ div[2] = "bearish" THEN Min(base + 150, 1000) ELSE base
      IN << Signal("sell", strength,
                   Reason(IF div[1] THEN <<"RSI overbought", "bearish divergence">>
                          ELSE <<"RSI overbought">>, latest.rsi),
                   strftime(latest.date), <<"RSI">>) >>
    ELSE <<>>

-----------------------------------------------------------------------------
(* FinancialAgent.detect_trading_signals: the latest day only *)

(* Rules 1 and 2: golden cross, death cross *)
LatestMaSignals(d, window) ==
    LET latest == Last(d)
        prev == IF Len(d) > 1 THEN d[Len(d) - 1] ELSE latest
        recent_window == IF Len(d) >= window + 1
                         THEN iloc(d, Len(d) - window - 1, Len(d)) ELSE d
        volume_up ==
            /\ Len(recent_window) > 0
            /\ IF Len(recent_window) > 1
               THEN VolumeAbove(latest, SubSeq(recent_window, 1, Len(recent_window) - 1), 120)
               ELSE FALSE       \* avg_volume = latest['volume']
        strength == (600 + MaCrossStrength(d, window)) \div 2
        golden ==
            IF notna(latest.ma5) /\ notna(latest.ma30)
               /\ Gt(latest.ma5, latest.ma30) /\ Le(prev.ma5, prev.ma30)
            THEN << Signal("buy", strength,
                           Reason(IF volume_up THEN <<"golden cross", "volume up">>
                                  ELSE <<"golden cross">>, None),
                           strftime(latest.date), <<"MA5", "MA30">>) >>
            ELSE <<>>
        death ==
            IF notna(latest.ma5) /\ notna(latest.ma30)
               /\ Lt(latest.ma5, latest.ma30) /\ Ge(prev.ma5, prev.ma30)
            THEN << Signal("sell", strength,
                           Reason(IF volume_up THEN <<"death cross", "volume up">>
                                  ELSE <<"death cross">>, None),
                           strftime(latest.date), <<"MA5", "MA30">>) >>
            ELSE <<>>
    IN golden \o death

(* Rule 4: MACD against its signal line, with histogram confirmation *)
LatestMacdSignals(d) ==
    LET latest == Last(d)
        prev == IF Len(d) > 1 THEN d[Len(d) - 1] ELSE latest
        hist == latest.macd_histogram
        up_bonus ==
            IF notna(hist)
            THEN (IF Val(hist) > 0 THEN 100 ELSE 0)
                 + (IF Len(d) > 1 /\ Gt(hist, prev.macd_histogram) THEN 100 ELSE 0)
            ELSE 0
        down_bonus ==
            IF notna(hist)
            THEN (IF Val(hist) < 0 THEN 100 ELSE 0)
                 + (IF Len(d) > 1 /\ Lt(hist, prev.macd_histogram) THEN 100 ELSE 0)
            ELSE 0
    IN IF ~(notna(latest.macd) /\ notna(latest.macd_signal)) THEN <<>>
       ELSE IF Gt(latest.macd, latest.macd_signal) /\ Le(prev.macd, prev.macd_signal)
         THEN << Signal("buy", Min(600 + up_bonus, 1000),
                        Reason(IF notna(hist) /\ Val(hist) > 0
                               THEN <<"MACD above signal line", "histogram positive">>
                               ELSE <<"MACD above signal line">>, None),
                        strftime(latest.date), <<"MACD">>) >>
       ELSE IF Lt(latest.macd, latest.macd_signal) /\ Ge(prev.macd, prev.macd_signal)
         THEN << Signal("sell", Min(600 + down_bonus, 1000),
                        Reason(IF notna(hist) /\ Val(hist) < 0
                               THEN <<"MACD below signal line", "histogram negative">>
                               ELSE <<"MACD below signal line">>, None),
                        strftime(latest.date), <<"MACD">>) >>
       ELSE <<>>

(* Rule 5: the hold signal synthesized when no rule fired *)
HoldSignal(d) ==
    LET latest == Last(d)
        ma_ok == notna(latest.ma5) /\ notna(latest.ma30)
        close_mas == ma_ok /\ 100 * Abs(Val(latest.ma5) - Val(latest.ma30)) < 2 * Val(latest.ma30)
        ma_part == IF ~ma_ok THEN <<>>
                   ELSE IF close_mas THEN <<"MAs converge">>
                   ELSE IF Gt(latest.ma5, latest.ma30) THEN <<"above MA">>
                   ELSE <<"below MA">>
        s1 == IF close_mas THEN 600 ELSE 500
        rsi_neutral == notna(latest.rsi) /\ 30 <= Val(latest.rsi) /\ Val(latest.rsi) <= 70
        s2 == IF rsi_neutral THEN 550 ELSE s1
        rsi_part == IF rsi_neutral THEN <<"RSI neutral">> ELSE <<>>
        conflict ==
            /\ Len(d) >= 20
            /\ (Last(d).close > d[Len(d) - 4].close) # (Last(d).close > d[Len(d) - 19].close)
        s3 == IF conflict THEN 600 ELSE s2
        trend_part == IF conflict THEN <<"trends disagree">> ELSE <<>>
    IN Signal("hold", s3, Reason(<<"hold">> \o ma_part \o rsi_part \o trend_part, None),
              strftime(latest.date), <<"composite">>)

detect_trading_signals_AlwaysHold(d) ==
    IF Len(d) < MinPoints THEN <<>>
    ELSE LatestMaSignals(d, Window)
         \o LatestRsiSignals(Last(d), CheckRsiDivergence(d, Window))
         \o LatestMacdSignals(d) \o << HoldSignal(d) >>

(* detect_trading_signals(df, window=5) *)
detect_trading_signals(d) ==
    IF Len(d) < MinPoints THEN <<>>
    ELSE
      LET fired == LatestMaSignals(d, Window)
                   \o LatestRsiSignals(Last(d), CheckRsiDivergence(d, Window))
                   \o LatestMacdSignals(d)
      IN IF fired = <<>> THEN << HoldSignal(d) >> ELSE fired

-----------------------------------------------------------------------------
(* FinancialAgent.detect_trading_signals_for_backtest: every day from index 30 *)

BacktestMaSignals_LookAhead(d, j, window) ==
    LET current_row == Row(d, j)
        prev_row == IF j > 0 THEN Row(d, j - 1) ELSE current_row
        lo == IF j - window > 0 THEN j - window ELSE 0
        recent_window == iloc(d, lo, j + 1)
        volume_up ==
            /\ Len(recent_window) > 1
            /\ VolumeAbove(current_row, SubSeq(recent_window, 1, Len(recent_window) - 1), 120)
        strength == (600 + MaCrossStrength(d, window)) \div 2
    IN IF ~(notna(current_row.ma5) /\ notna(current_row.ma30)) THEN <<>>
       ELSE IF ~(notna(prev_row.ma5) /\ notna(prev_row.ma30)) THEN <<>>
       ELSE IF Gt(current_row.ma5, current_row.ma30) /\ Le(prev_row.ma5, prev_row.ma30)
         THEN << Signal("buy", strength,
                        Reason(IF volume_up THEN <<"golden cross", "volume up">>
                               ELSE <<"golden cross">>, None),
                        strftime(current_row.date), <<"MA5", "MA30">>) >>
       ELSE IF Lt(current_row.ma5, current_row.ma30) /\ Ge(prev_row.ma5, prev_row.ma30)
         THEN << Signal("sell", strength,
                        Reason(IF volume_up THEN <<"death cross", "volume up">>
                               ELSE <<"death cross">>, None),
                        strftime(current_row.date), <<"MA5", "MA30">>) >>
       ELSE <<>>

(* 1. MA cross signals of day j *)
BacktestMaSignals(d, j, window) ==
    LET current_row == Row(d, j)
        prev_row == IF j > 0 THEN Row(d, j - 1) ELSE current_row
        lo == IF j - window > 0 THEN j - window ELSE 0
        recent_window == iloc(d, lo, j + 1)
        volume_up ==
            /\ Len(recent_window) > 1
            /\ VolumeAbove(current_row, SubSeq(recent_window, 1, Len(recent_window) - 1), 120)
        strength == (600 + MaCrossStrength(iloc(d, 0, j + 1), window)) \div 2
    IN IF ~(notna(current_row.ma5) /\ notna(current_row.ma30)) THEN <<>>
       ELSE IF ~(notna(prev_row.ma5) /\ notna(prev_row.ma30)) THEN <<>>
       ELSE IF Gt(current_row.ma5, current_row.ma30) /\ Le(prev_row.ma5, prev_row.ma30)
         THEN << Signal("buy", strength,
                        Reason(IF volume_up THEN <<"golden cross", "volume up">>
                               ELSE <<"golden cross">>, None),
                        strftime(current_row.date), <<"MA5", "MA30">>) >>
       ELSE IF Lt(current_row.ma5, current_row.ma30) /\ Ge(prev_row.ma5, prev_row.ma30)
         THEN << Signal("sell", strength,
                        Reason(IF volume_up THEN <<"death cross", "volume up">>
                               ELSE <<"death cross">>, None),
                        strftime(current_row.date), <<"MA5", "MA30">>) >>
       ELSE <<>>

(* 2. RSI signals of day j *)
BacktestRsiSignals(d, j, window) ==
    LET current_row == Row(d, j)
        div == CheckRsiDivergence(iloc(d, 0, j + 1), window)
    IN IF ~notna(current_row.rsi) THEN <<>>
       ELSE IF Val(current_row.rsi) < 30 THEN
         LET base == RsiSignalStrength(Val(current_row.rsi), "buy")
             strength == IF div[1] /\ div[2] = "bullish"
                         THEN Min(base + 150, 1000) ELSE base
         IN << Signal("buy", strength,
                      Reason(IF div[1] THEN <<"RSI oversold", "bullish divergence">>
                             ELSE <<"RSI oversold">>, current_row.rsi),
                      strftime(current_row.date), <<"RSI">>) >>
       ELSE IF Val(current_row.rsi) > 70 THEN
         LET base == RsiSignalStrength(Val(current_row.rsi), "sell")
             strength == IF div[1] /\ div[2] = "bearish"
                         THEN Min(base + 150, 1000) ELSE base
         IN << Signal("sell", strength,
                      Reason(IF div[1] THEN <<"RSI overbought", "bearish divergence">>
                             ELSE <<"RSI overbought">>, current_row.rsi),
                      strftime(current_row.date), <<"RSI">>) >>
       ELSE <<>>

(* 3. MACD signals of day j *)
BacktestMacdSignals(d, j) ==
    LET current_row == Row(d, j)
        prev_row == IF j > 0 THEN Row(d, j - 1) ELSE current_row
        hist == current_row.macd_histogram
        up_bonus ==
            IF notna(hist)
            THEN (IF Val(hist) > 0 THEN 100 ELSE 0)
                 + (IF Gt(hist, prev_row.macd_histogram) THEN 100 ELSE 0)
            ELSE 0
        down_bonus ==
            IF notna(hist)
            THEN (IF Val(hist) < 0 THEN 100 ELSE 0)
                 + (IF Lt(hist, prev_row.macd_histogram) THEN 100 ELSE 0)
            ELSE 0
    IN IF ~(notna(current_row.macd) /\ notna(current_row.macd_signal)) THEN <<>>
       ELSE IF ~(notna(prev_row.macd) /\ notna(prev_row.macd_signal)) THEN <<>>
       ELSE IF Gt(current_row.macd, current_row.macd_signal)
               /\ Le(prev_row.macd, prev_row.macd_signal)
         THEN << Signal("buy", Min(600 + up_bonus, 1000),
                        Reason(IF notna(hist) /\ Val(hist) > 0
                               THEN <<"MACD above signal line", "histogram positive">>
                               ELSE <<"MACD above signal line">>, None),
                        strftime(current_row.date), <<"MACD">>) >>
       ELSE IF Lt(current_row.macd, current_row.macd_signal)
               /\ Ge(prev_row.macd, prev_row.macd_signal)
         THEN << Signal("sell", Min(600 + down_bonus, 1000),
                        Reason(IF notna(hist) /\ Val(hist) < 0
                               THEN <<"MACD below signal line", "histogram negative">>
                               ELSE <<"MACD below signal line">>, None),
                        strftime(current_row.date), <<"MACD">>) >>
       ELSE <<>>

(* day_signals of one iteration of the scan *)
BacktestDaySignals(d, j) ==
    BacktestMaSignals(d, j, Window) \o BacktestRsiSignals(d, j, Window)
    \o BacktestMacdSignals(d, j)

detect_trading_signals_for_backtest_LateStart(d) ==
    IF Len(d) < MinPoints THEN <<>>
    ELSE Flatten([n \in 1..(Len(d) - ScanStart - 1) |-> BacktestDaySignals(d, ScanStart + n)])

(* detect_trading_signals_for_backtest(df, window=5) *)
detect_trading_signals_for_backtest(d) ==
    IF Len(d) < MinPoints THEN <<>>
    ELSE Flatten([n \in 1..(Len(d) - ScanStart) |-> BacktestDaySignals(d, ScanStart + n - 1)])

-----------------------------------------------------------------------------
(* The inputs: indicator-augmented series and requests *)

IndicatorRow(date, close, volume, ma5, ma30, rsi, macd, macd_signal) ==
    [date |-> date, close |-> close, volume |-> volume, ma5 |-> ma5, ma30 |-> ma30,
     rsi |-> rsi, macd |-> Some(macd), macd_signal |-> Some(macd_signal),
     macd_histogram |-> Some(macd - macd_signal)]

(* Row j (0-based) of a quiet market: the rolling means are NaN until their  *)
(* window is full.                                                           *)
WarmRow(j) ==
    IndicatorRow(j, 50, 1000,
                 IF j < 4 THEN NaN ELSE Some(50),
                 IF j < 29 THEN NaN ELSE Some(50),
                 IF j < 13 THEN NaN ELSE Some(50),
                 0, 0)

TailKinds == {"surge", "drop", "flat", "dip", "peak"}

(* Calendar days between a row of this kind and the row before it *)
GapOf(kind) == IF kind = "flat" THEN 3 ELSE 1

TailRow(kind, date) ==
    CASE kind = "surge" -> IndicatorRow(date, 60, 1500, Some(52), Some(50), Some(85), 8, 2)
      [] kind = "drop"  -> IndicatorRow(date, 40, 1000, Some(48), Some(50), Some(25), -8, -2)
      [] kind = "flat"  -> IndicatorRow(date, 50, 1000, Some(50), Some(50), NaN, 0, 0)
      [] kind = "dip"   -> IndicatorRow(date, 50, 1000, Some(50), Some(50), Some(29), 0, 0)
      [] kind = "peak"  -> IndicatorRow(date, 60, 1200, Some(50), Some(50), Some(72), 0, 0)

RECURSIVE Extend(_, _)
Extend(d, kinds) ==
    IF kinds = <<>> THEN d
    ELSE Extend(Append(d, TailRow(Head(kinds), Last(d).date + GapOf(Head(kinds)))),
                Tail(kinds))

Warmup == [n \in 1..MinPoints |-> WarmRow(n - 1)]

Tails == UNION {[1..n -> TailKinds] : n \in 0..MaxTail}

Series ==
    {<<>>, SubSeq(Warmup, 1, MinPoints - 1)} \cup {Extend(Warmup, t) : t \in Tails}

Strategies == {"signal_based", "ma_cross", "rsi", "macd"}

Requests ==
    [strategy_type : Strategies,
     initial_capital : {100000, 5500},
     shares_per_trade : {100, 250},
     hold_days : {None, Some(1), Some(2)},
     min_signal_strength : {500, 650},
     signal_types : {None, <<"buy", "hold">>}]

(* The signal filters are read by the signal_based strategy only *)
RequestOk(r) ==
    r.strategy_type # "signal_based" => r.min_signal_strength = 500 /\ r.signal_types = None

-----------------------------------------------------------------------------
(* FinancialAgent.calculate_technical_indicators                            *)
(*                                                                         *)
(* Fixed point: the moving averages are kept in units of 1/LongWindow (only *)
(* their ratio is ever read), the RSI in whole points rounded down, the     *)
(* MACD columns in thousandths rounded down. ma10, ma20, ma60 and the       *)
(* Bollinger bands are read by no detector and are left out.                *)

(* One row of get_stock_data *)
PricePoint(date, close, volume) == [date |-> date, close |-> close, volume |-> volume]

(* df['close'].rolling(window=w).mean() at index j: NaN until the window is full *)
RollingMean(p, j, w) ==
    IF j + 1 < w THEN NaN
    ELSE Some(SumSeq([n \in 1..w |-> p[j + 1 - w + n].close]) * (LongWindow \div w))

(* delta = df['close'].diff() at index j; where() turns the NaN of index 0 into 0 *)
Delta(p, j) == IF j = 0 THEN 0 ELSE p[j + 1].close - p[j].close

(* 100 - 100 / (1 + gain / loss) over the last 14 deltas *)
Rsi(p, j) ==
    IF j + 1 < RsiPeriod THEN NaN
    ELSE
      LET deltas == [n \in 1..RsiPeriod |-> Delta(p, j - RsiPeriod + n)]
          gain == SumSeq([n \in 1..RsiPeriod |-> IF deltas[n] > 0 THEN deltas[n] ELSE 0])
          loss == SumSeq([n \in 1..RsiPeriod |-> IF deltas[n] < 0 THEN -deltas[n] ELSE 0])
      IN IF loss = 0 THEN (IF gain = 0 THEN NaN ELSE Some(100))
         ELSE Some((100 * gain) \div (gain + loss))

(* values.ewm(span=span, adjust=False).mean(), extending the means acc *)
RECURSIVE Ewm(_, _, _)
Ewm(values, span, acc) ==
    IF values = <<>> THEN acc
    ELSE IF acc = <<>> THEN Ewm(Tail(values), span, <<Head(values)>>)
    ELSE Ewm(Tail(values), span,
             Append(acc, (2 * Head(values) + (span - 1) * Last(acc)) \div (span + 1)))

(* calculate_technical_indicators(df) *)
calculate_technical_indicators(p) ==
    LET close == [n \in 1..Len(p) |-> p[n].close * 1000]
        exp1 == Ewm(close, FastSpan, <<>>)
        exp2 == Ewm(close, SlowSpan, <<>>)
        macd == [n \in 1..Len(p) |-> exp1[n] - exp2[n]]
        macd_signal == Ewm(macd, SignalSpan, <<>>)
    IN [n \in 1..Len(p) |->
          IndicatorRow(p[n].date, p[n].close, p[n].volume,
                       RollingMean(p, n - 1, ShortWindow),
                       RollingMean(p, n - 1, LongWindow),
                       Rsi(p, n - 1), macd[n], macd_signal[n])]

-----------------------------------------------------------------------------
(* The detector run on its own: two price series that share their past *)

BaseKinds == {"flat", "falling", "rising"}

(* Close of row j (0-based) of a 30-row history *)
BaseClose(kind, j) ==
    CASE kind = "flat" -> 50
      [] kind = "falling" -> IF j < 28 THEN 120 - 2 * j ELSE IF j = 28 THEN 68 ELSE 66
      [] kind = "rising" -> IF j < 28 THEN 20 + 2 * j ELSE IF j = 28 THEN 72 ELSE 74

Base(kind) == [n \in 1..MinPoints |-> PricePoint(n - 1, BaseClose(kind, n - 1), 1000)]

Moves == {"up", "down", "flat", "jump"}

MoveRow(prev, move) ==
    CASE move = "up" -> PricePoint(prev.date + 1, prev.close + 2, 1000)
      [] move = "down" -> PricePoint(prev.date + 1, prev.close - 2, 1000)
      [] move = "flat" -> PricePoint(prev.date + 1, prev.close, 1000)
      [] move = "jump" -> PricePoint(prev.date + 1, prev.close + 10, 1500)

RECURSIVE Grow(_, _)
Grow(p, moves) ==
    IF moves = <<>> THEN p
    ELSE Grow(Append(p, MoveRow(Last(p), Head(moves))), Tail(moves))

MovesUpTo(n) == UNION {[1..m -> Moves] : m \in 0..n}

(* No detector run is going on *)
DetectorIdle ==
    /\ prices = <<>>
    /\ cut = 0
    /\ frames = None
    /\ scans = None
    /\ latest_signals = None
    /\ spc = "idle"

(* No batch analysis is going on *)
BatchIdle ==
    /\ stock_codes = <<>>
    /\ max_concurrent = 0
    /\ semaphore = 0
    /\ task = <<>>
    /\ done_queue = <<>>
    /\ results = <<>>
    /\ completed = 0
    /\ bpc = "idle"

(* No recommendation is going on *)
RecIdle ==
    /\ analyses = <<>>
    /\ rec_request = [max_stocks |-> 0, min_recommendation_score |-> 0]
    /\ recommendations_data = <<>>
    /\ recommendations = <<>>
    /\ rpc = "idle"

(* No tracing task exists *)
TraceIdle ==
    /\ task_status = "none"
    /\ task_result = None
    /\ task_cancelled = None
    /\ max_iterations = 0
    /\ iteration = 0
    /\ all_messages = <<>>
    /\ last_tool_call_count = 0
    /\ trace_outcome = None
    /\ cancel_point = None
    /\ tpc = "idle"

(* No call of get_stock_data is going on *)
FetchIdle ==
    /\ akshare_available = TRUE
    /\ max_retries = 0
    /\ attempt = 0
    /\ fetch_log = <<>>
    /\ slept = <<>>
    /\ fetched = None
    /\ fpc = "idle"

-----------------------------------------------------------------------------
(* StrategyBacktest: the ledger *)

Position(buy_date, buy_price, shares, entry) ==
    Some([buy_date |-> buy_date, buy_price |-> buy_price, shares |-> shares,
          signal_type |-> entry])

Label(how, entry) == [how |-> how, entry |-> entry]

(* shares = (request.shares_per_trade // 100) * 100 *)
Shares(r) == (r.shares_per_trade \div LotSize) * LotSize

CanBuy_Unchecked(cap, cost) == TRUE

(* if capital >= cost *)
CanBuy(cap, cost) == cap >= cost

(* (sell_date - buy_date).days of two '%Y-%m-%d' strings *)
DaysBetween(buy_date, sell_date) == strptime(sell_date) - strptime(buy_date)

ReturnRate_Fraction(buy_price, sell_price) ==
    IF buy_price > 0 THEN Rat(sell_price - buy_price, buy_price) ELSE Rat(0, 1)

(* return_rate * 100 *)
ReturnRate(buy_price, sell_price) ==
    IF buy_price > 0 THEN Rat((sell_price - buy_price) * 100, buy_price) ELSE Rat(0, 1)

BacktestTrade_DatesSwapped(id, pos, sell_date, sell_price, label) ==
    [trade_id |-> id, buy_date |-> sell_date, buy_price |-> pos.buy_price,
     sell_date |-> pos.buy_date, sell_price |-> sell_price, shares |-> pos.shares,
     profit |-> (sell_price - pos.buy_price) * pos.shares,
     return_rate |-> ReturnRate(pos.buy_price, sell_price),
     signal_type |-> label,
     hold_days |-> DaysBetween(pos.buy_date, sell_date)]

(* BacktestTrade(...) of closing pos at sell_price on sell_date *)
BacktestTrade(id, pos, sell_date, sell_price, label) ==
    [trade_id |-> id, buy_date |-> pos.buy_date, buy_price |-> pos.buy_price,
     sell_date |-> sell_date, sell_price |-> sell_price, shares |-> pos.shares,
     profit |-> (sell_price - pos.buy_price) * pos.shares,
     return_rate |-> ReturnRate(pos.buy_price, sell_price),
     signal_type |-> label,
     hold_days |-> DaysBetween(pos.buy_date, sell_date)]

Credit_ProfitOnly(cap, pos, sell_price) == cap + (sell_price - pos.buy_price) * pos.shares

(* capital += sell_price * position['shares'] *)
Credit(cap, pos, sell_price) == cap + sell_price * pos.shares

(* if days_held >= request.hold_days *)
HoldExpired(days_held, hold_days) == days_held >= hold_days

current_row == Row(df, i)
current_date == strftime(current_row.date)
current_price == current_row.close

(* The buy branch: open a position when the capital covers the cost *)
Buy(entry) ==
    LET shares == Shares(request)
        cost == current_price * shares
    IN IF CanBuy(capital, cost)
       THEN /\ position' = Position(current_date, current_price, shares, entry)
            /\ capital' = capital - cost
            /\ buys' = buys + 1
       ELSE UNCHANGED <<position, capital, buys>>

Sell_SameId(label) ==
    /\ trades' = Append(trades, BacktestTrade(trade_id, Val(position), current_date,
                                              current_price, label))
    /\ capital' = Credit(capital, Val(position), current_price)
    /\ trade_id' = trade_id
    /\ position' = None

(* The sell branch: close the open position at the current price *)
Sell(label) ==
    /\ trades' = Append(trades, BacktestTrade(trade_id, Val(position), current_date,
                                              current_price, label))
    /\ capital' = Credit(capital, Val(position), current_price)
    /\ trade_id' = trade_id + 1
    /\ position' = None

-----------------------------------------------------------------------------
(* StrategyBacktest: equity curve and metrics *)

RECURSIVE CurveFrom_ExclusiveEnd(_, _, _, _)
CurveFrom_ExclusiveEnd(ts, cap, date, end) ==
    IF date >= end THEN <<>>
    ELSE
      LET bought == [n \in 1..Len(ts) |->
                        IF strptime(ts[n].buy_date) = date
                        THEN ts[n].buy_price * ts[n].shares ELSE 0]
          sold == [n \in 1..Len(ts) |->
                      IF strptime(ts[n].sell_date) = date
                      THEN ts[n].sell_price * ts[n].shares ELSE 0]
          c == cap - SumSeq(bought) + SumSeq(sold)
      IN <<[date |-> strftime(date), capital |-> c]>>
         \o CurveFrom_ExclusiveEnd(ts, c, date + 1, end)

RECURSIVE CurveFrom(_, _, _, _)
CurveFrom(ts, cap, date, end) ==
    IF date > end THEN <<>>
    ELSE
      LET bought == [n \in 1..Len(ts) |->
                        IF strptime(ts[n].buy_date) = date
                        THEN ts[n].buy_price * ts[n].shares ELSE 0]
          sold == [n \in 1..Len(ts) |->
                      IF strptime(ts[n].sell_date) = date
                      THEN ts[n].sell_price * ts[n].shares ELSE 0]
          c == cap - SumSeq(bought) + SumSeq(sold)
      IN <<[date |-> strftime(date), capital |-> c]>> \o CurveFrom(ts, c, date + 1, end)

EquityCurve_WithoutLastDay(ts, initial_capital, start_date, end_date) ==
    CurveFrom(ts, initial_capital, strptime(start_date), strptime(end_date) - 1)

(* _calculate_equity_curve(trades, initial_capital, start_date, end_date) *)
EquityCurve(ts, initial_capital, start_date, end_date) ==
    CurveFrom(ts, initial_capital, strptime(start_date), strptime(end_date))

RECURSIVE DrawdownFrom(_, _, _)
DrawdownFrom(capitals, peak, max_dd) ==
    IF capitals = <<>> THEN max_dd
    ELSE
      LET cap == Head(capitals)
          peak2 == IF cap > peak THEN cap ELSE peak
          dd == IF peak2 > 0 THEN Rat(peak2 - cap, peak2) ELSE Rat(0, 1)
      IN IF RatLess(max_dd, dd) THEN DrawdownFrom(Tail(capitals), peak2, dd)
         ELSE DrawdownFrom(Tail(capitals), peak2, max_dd)

(* _calculate_max_drawdown(equity_curve), in percent *)
MaxDrawdown(curve) ==
    IF Len(curve) < 2 THEN Rat(0, 1)
    ELSE LET capitals == [n \in 1..Len(curve) |-> curve[n].capital]
             dd == DrawdownFrom(capitals, capitals[1], Rat(0, 1))
         IN Rat(dd.num * 100, dd.den)

SharpeRatio_NoDeviationGuard(ts) ==
    IF Len(ts) < 2 THEN None
    ELSE Some([avg_hold_days |->
                 Rat(SumSeq([n \in 1..Len(ts) |-> ts[n].hold_days]), Len(ts))])

(* _calculate_sharpe_ratio(trades): None, or the ratio (kept as its inputs) *)
SharpeRatio(ts) ==
    IF Len(ts) < 2 THEN None
    ELSE IF \A a, b \in 1..Len(ts) : RatEq(ts[a].return_rate, ts[b].return_rate) THEN None
    ELSE Some([avg_hold_days |->
                 Rat(SumSeq([n \in 1..Len(ts) |-> ts[n].hold_days]), Len(ts))])

EmptyMetrics_ZeroAnnualized(initial_capital) ==
    [initial_capital |-> initial_capital, final_capital |-> initial_capital,
     total_return |-> 0, total_return_rate |-> Rat(0, 1),
     annualized_return_rate |-> Some(Rat(0, 1)),
     total_trades |-> 0, successful_trades |-> 0, failed_trades |-> 0,
     win_rate |-> Rat(0, 1), average_profit |-> Rat(0, 1),
     max_profit |-> 0, max_loss |-> 0, max_drawdown |-> Rat(0, 1),
     sharpe_ratio |-> None, profit_factor |-> None]

(* The BacktestMetrics built three times over for a run without trades *)
EmptyMetrics(initial_capital) ==
    [initial_capital |-> initial_capital, final_capital |-> initial_capital,
     total_return |-> 0, total_return_rate |-> Rat(0, 1),
     annualized_return_rate |-> None,
     total_trades |-> 0, successful_trades |-> 0, failed_trades |-> 0,
     win_rate |-> Rat(0, 1), average_profit |-> Rat(0, 1),
     max_profit |-> 0, max_loss |-> 0, max_drawdown |-> Rat(0, 1),
     sharpe_ratio |-> None, profit_factor |-> None]

RECURSIVE MaxOf(_)
MaxOf(s) == IF Len(s) = 1 THEN s[1]
            ELSE LET m == MaxOf(Tail(s)) IN IF Head(s) > m THEN Head(s) ELSE m
RECURSIVE MinOf(_)
MinOf(s) == IF Len(s) = 1 THEN s[1]
            ELSE LET m == MinOf(Tail(s)) IN IF Head(s) < m THEN Head(s) ELSE m

(* _calculate_metrics(trades, initial_capital, equity_curve, start_date, end_date) *)
CalculateMetrics(ts, initial_capital, curve, start_date, end_date) ==
    IF ts = <<>> THEN EmptyMetrics(initial_capital)
    ELSE
      LET profits == [n \in 1..Len(ts) |-> ts[n].profit]
          total_profit == SumSeq(profits)
          final_capital == initial_capital + total_profit
          total_return == final_capital - initial_capital
          days == strptime(end_date) - strptime(start_date)
          total_trades == Len(ts)
          successful_trades == Cardinality({n \in 1..Len(ts) : ts[n].profit > 0})
          total_profit_amount ==
              SumSeq([n \in 1..Len(ts) |-> IF profits[n] > 0 THEN profits[n] ELSE 0])
          total_loss_amount ==
              Abs(SumSeq([n \in 1..Len(ts) |-> IF profits[n] < 0 THEN profits[n] ELSE 0]))
      IN [initial_capital |-> initial_capital, final_capital |-> final_capital,
          total_return |-> total_return,
          total_return_rate |-> IF initial_capital > 0
                                THEN Rat(total_return * 100, initial_capital)
                                ELSE Rat(0, 1),
          \* ((final/initial) ** (1/years) - 1) * 100, kept as its inputs
          annualized_return_rate |->
              IF initial_capital > 0
              THEN Some([final_capital |-> final_capital, days |-> days])
              ELSE None,
          total_trades |-> total_trades,
          successful_trades |-> successful_trades,
          failed_trades |-> total_trades - successful_trades,
          win_rate |-> IF total_trades > 0 THEN Rat(successful_trades, total_trades)
                       ELSE Rat(0, 1),
          average_profit |-> Rat(total_profit, total_trades),
          max_profit |-> MaxOf(profits), max_loss |-> MinOf(profits),
          max_drawdown |-> MaxDrawdown(curve),
          sharpe_ratio |-> SharpeRatio(ts),
          profit_factor |-> IF total_loss_amount > 0
                            THEN Some(Rat(total_profit_amount, total_loss_amount))
                            ELSE None]

(* BacktestResult(...) *)
BacktestResult(metrics, ts, curve) ==
    Some([strategy_type |-> request.strategy_type, metrics |-> metrics,
          trades |-> ts, equity_curve |-> curve])

-----------------------------------------------------------------------------
(* The state machine: one backtest_*_strategy call *)

(* The request asks for the period of the series it is run on *)
WithPeriod(r, d) ==
    r @@ [start_date |-> strftime(0),
          end_date |-> IF d = <<>> THEN strftime(0) ELSE strftime(Last(d).date)]

Init ==
    /\ \E r \in Requests, d \in Series :
          /\ RequestOk(r)
          /\ request = WithPeriod(r, d)
          /\ df = d
          /\ capital = r.initial_capital
    /\ pc = "start"
    /\ i = 0
    /\ signal_data = <<>>
    /\ eligible_signals = <<>>
    /\ day_signals = <<>>
    /\ k = 1
    /\ position = None
    /\ trades = <<>>
    /\ trade_id = 1
    /\ buys = 0
    /\ result = None
    /\ DetectorIdle
    /\ BatchIdle
    /\ RecIdle
    /\ TraceIdle
    /\ FetchIdle

ledger == <<position, capital, trades, trade_id, buys>>
signals == <<signal_data, eligible_signals, day_signals, k>>

(* if df.empty: raise ValueError *)
RaiseNoData ==
    /\ pc = "start"
    /\ df = <<>>
    /\ pc' = "raised"
    /\ UNCHANGED <<request, df, i, signals, ledger, result>>
    /\ UNCHANGED aux

(* if len(df) < 30: return the empty result *)
ReturnInsufficientData ==
    /\ pc = "start"
    /\ df # <<>>
    /\ Len(df) < MinPoints
    /\ result' = BacktestResult(EmptyMetrics(request.initial_capital), <<>>, None)
    /\ pc' = "done"
    /\ UNCHANGED <<request, df, i, signals, ledger>>
    /\ UNCHANGED aux

(* signal_types_filter = request.signal_types or ['buy', 'sell'] *)
SignalTypesFilter(r) ==
    IF r.signal_types = None \/ r.signal_types = <<>> THEN <<"buy", "sell">>
    ELSE r.signal_types

InSeq(x, s) == \E n \in 1..Len(s) : s[n] = x

Eligible_AnyType(s, r) == s.signal_strength >= r.min_signal_strength

(* The pre-filter of the signals by type and strength *)
Eligible(s, r) ==
    /\ InSeq(s.signal_type, SignalTypesFilter(r))
    /\ s.signal_strength >= r.min_signal_strength

(* signal_based: detect the signals of the whole period, return early without any *)
DetectSignals ==
    /\ pc = "start"
    /\ request.strategy_type = "signal_based"
    /\ Len(df) >= MinPoints
    /\ LET found == detect_trading_signals_for_backtest(df)
           IsEligible(s) == Eligible(s, request)
       IN /\ signal_data' = found
          /\ IF found = <<>>
             THEN /\ result' = BacktestResult(EmptyMetrics(request.initial_capital),
                                              <<>>, None)
                  /\ pc' = "done"
                  /\ UNCHANGED eligible_signals
             ELSE /\ eligible_signals' = SelectSeq(found, IsEligible)
                  /\ pc' = "loop"
                  /\ UNCHANGED result
    /\ i' = 0
    /\ UNCHANGED <<request, df, day_signals, k, ledger>>
    /\ UNCHANGED aux

(* ma_cross, rsi, macd: enter the day-by-day loop *)
BeginRuleStrategy ==
    /\ pc = "start"
    /\ request.strategy_type # "signal_based"
    /\ Len(df) >= MinPoints
    /\ i' = IF request.strategy_type = "rsi" THEN 0 ELSE 1
    /\ pc' = "loop"
    /\ UNCHANGED <<request, df, signals, ledger, result>>
    /\ UNCHANGED aux

(* The signals of eligible_signals dated current_date *)
MatchDay(s, date, r) ==
    /\ s.signal_date = date
    /\ ~(s.signal_strength < r.min_signal_strength)

(* signal_based: head of one iteration; a day without signals is skipped *)
SignalDay ==
    /\ pc = "loop"
    /\ request.strategy_type = "signal_based"
    /\ i < Len(df)
    /\ LET Today(s) == MatchDay(s, current_date, request)
           found == SelectSeq(eligible_signals, Today)
       IN /\ day_signals' = found
          /\ IF found = <<>>
             THEN i' = i + 1 /\ pc' = "loop"
             ELSE i' = i /\ pc' = "signals"
    /\ k' = 1
    /\ UNCHANGED <<request, df, signal_data, eligible_signals, ledger, result>>
    /\ UNCHANGED aux

BuyBranch_AnyPosition(signal, pos) == signal.signal_type = "buy"

(* if signal_type == 'buy' and position is None *)
BuyBranch(signal, pos) == signal.signal_type = "buy" /\ pos = None

(* elif signal_type == 'sell' and position is not None *)
SellBranch(signal, pos) == signal.signal_type = "sell" /\ pos # None

(* signal_based: one pass of `for signal in day_signals` *)
ProcessSignal ==
    /\ pc = "signals"
    /\ LET signal == day_signals[k]
       IN IF BuyBranch(signal, position)
          THEN Buy(signal.signal_reason) /\ UNCHANGED <<trades, trade_id>>
          ELSE IF SellBranch(signal, position)
          THEN Sell(Label("signal", Val(position).signal_type)) /\ UNCHANGED buys
          ELSE UNCHANGED ledger
    /\ IF k = Len(day_signals)
       THEN pc' = "hold" /\ k' = k
       ELSE pc' = "signals" /\ k' = k + 1
    /\ UNCHANGED <<request, df, i, signal_data, eligible_signals, day_signals, result>>
    /\ UNCHANGED aux


prev_row == Row(df, i - 1)

(* ma_cross: one iteration up to the hold_days check *)
MaCrossDay ==
    /\ pc = "loop"
    /\ request.strategy_type = "ma_cross"
    /\ i < Len(df)
    /\ IF ~notna(current_row.ma5) \/ ~notna(current_row.ma30)
          \/ ~notna(prev_row.ma5) \/ ~notna(prev_row.ma30)
       THEN i' = i + 1 /\ pc' = "loop" /\ UNCHANGED ledger
       ELSE /\ i' = i
            /\ pc' = "hold"
            /\ IF /\ Gt(current_row.ma5, current_row.ma30)
                  /\ Le(prev_row.ma5, prev_row.ma30)
                  /\ position = None
               THEN Buy(Reason(<<"MA golden cross">>, None)) /\ UNCHANGED <<trades, trade_id>>
               ELSE IF /\ Lt(current_row.ma5, current_row.ma30)
                       /\ Ge(prev_row.ma5, prev_row.ma30)
                       /\ position # None
               THEN Sell(Label("MA death cross", Reason(<<>>, None))) /\ UNCHANGED buys
               ELSE UNCHANGED ledger
    /\ UNCHANGED <<request, df, signals, result>>
    /\ UNCHANGED aux

(* rsi: one iteration up to the hold_days check *)
RsiDay ==
    /\ pc = "loop"
    /\ request.strategy_type = "rsi"
    /\ i < Len(df)
    /\ IF ~notna(current_row.rsi)
       THEN i' = i + 1 /\ pc' = "loop" /\ UNCHANGED ledger
       ELSE /\ i' = i
            /\ pc' = "hold"
            /\ IF Val(current_row.rsi) < OversoldThreshold /\ position = None
               THEN Buy(Reason(<<"RSI oversold">>, current_row.rsi))
                    /\ UNCHANGED <<trades, trade_id>>
               ELSE IF Val(current_row.rsi) > OverboughtThreshold /\ position # None
               THEN Sell(Label("RSI overbought", Reason(<<>>, current_row.rsi)))
                    /\ UNCHANGED buys
               ELSE UNCHANGED ledger
    /\ UNCHANGED <<request, df, signals, result>>
    /\ UNCHANGED aux

(* macd: one iteration up to the hold_days check *)
MacdDay ==
    /\ pc = "loop"
    /\ request.strategy_type = "macd"
    /\ i < Len(df)
    /\ IF ~notna(current_row.macd) \/ ~notna(current_row.macd_signal)
          \/ ~notna(prev_row.macd) \/ ~notna(prev_row.macd_signal)
       THEN i' = i + 1 /\ pc' = "loop" /\ UNCHANGED ledger
       ELSE /\ i' = i
            /\ pc' = "hold"
            /\ IF /\ Gt(current_row.macd, current_row.macd_signal)
                  /\ Le(prev_row.macd, prev_row.macd_signal)
                  /\ position = None
               THEN Buy(Reason(<<"MACD golden cross">>, current_row.macd))
                    /\ UNCHANGED <<trades, trade_id>>
               ELSE IF /\ Lt(current_row.macd, current_row.macd_signal)
                       /\ Ge(prev_row.macd, prev_row.macd_signal)
                       /\ position # None
               THEN Sell(Label("MACD death cross", Reason(<<>>, current_row.macd)))
                    /\ UNCHANGED buys
               ELSE UNCHANGED ledger
    /\ UNCHANGED <<request, df, signals, result>>
    /\ UNCHANGED aux

(* All four strategies: the hold_days constraint that ends an iteration *)
HoldDaysCheck ==
    /\ pc = "hold"
    /\ IF /\ position # None
          /\ request.hold_days # None
          /\ HoldExpired(DaysBetween(Val(position).buy_date, current_date),
                         Val(request.hold_days))
       THEN Sell(Label("hold_days", Val(position).signal_type)) /\ UNCHANGED buys
       ELSE UNCHANGED ledger
    /\ i' = i + 1
    /\ pc' = "loop"
    /\ UNCHANGED <<request, df, signals, result>>
    /\ UNCHANGED aux

CloseRemaining_Forgotten ==
    /\ pc = "loop"
    /\ i = Len(df)
    /\ pc' = "end"
    /\ UNCHANGED <<request, df, i, signals, ledger, result>>
    /\ UNCHANGED aux

(* All four strategies: close any remaining position at the end *)
CloseRemaining ==
    /\ pc = "loop"
    /\ i = Len(df)
    /\ IF position # None
       THEN LET final_price == Last(df).close
                final_date == strftime(Last(df).date)
            IN /\ trades' = Append(trades,
                                   BacktestTrade(trade_id, Val(position), final_date,
                                                 final_price,
                                                 Label("end", Val(position).signal_type)))
               /\ capital' = Credit(capital, Val(position), final_price)
       ELSE UNCHANGED <<trades, capital>>
    /\ pc' = "end"
    /\ UNCHANGED <<request, df, i, signals, position, trade_id, buys, result>>
    /\ UNCHANGED aux

(* All four strategies: equity curve, metrics, the result *)
ReturnResult ==
    /\ pc = "end"
    /\ LET equity_curve == EquityCurve(trades, request.initial_capital,
                                       request.start_date, request.end_date)
           metrics == CalculateMetrics(trades, request.initial_capital, equity_curve,
                                       request.start_date, request.end_date)
       IN result' = BacktestResult(metrics, trades, Some(equity_curve))
    /\ pc' = "done"
    /\ UNCHANGED <<request, df, i, signals, ledger>>
    /\ UNCHANGED aux

Next ==
    \/ RaiseNoData
    \/ ReturnInsufficientData
    \/ DetectSignals
    \/ BeginRuleStrategy
    \/ SignalDay
    \/ ProcessSignal
    \/ MaCrossDay
    \/ RsiDay
    \/ MacdDay
    \/ HoldDaysCheck
    \/ CloseRemaining
    \/ ReturnResult

Spec == Init /\ [][Next]_vars

(* The coroutine runs to completion once called *)
FairSpec == Spec /\ WF_vars(Next)

-----------------------------------------------------------------------------
(* The state machine of a detector run *)

(* No backtest is going on *)
BacktestIdle ==
    /\ request = [strategy_type |-> "signal_based"]
    /\ df = <<>>
    /\ pc = "idle"
    /\ i = 0
    /\ signal_data = <<>>
    /\ eligible_signals = <<>>
    /\ day_signals = <<>>
    /\ k = 1
    /\ position = None
    /\ capital = 0
    /\ trades = <<>>
    /\ trade_id = 1
    /\ buys = 0
    /\ result = None

DetectorInit ==
    /\ \/ \E kind \in BaseKinds, c \in MovesUpTo(MaxCommon) :
            \E fa \in MovesUpTo(MaxFuture), fb \in MovesUpTo(MaxFuture) :
               LET common == Grow(Base(kind), c)
               IN /\ prices = <<Grow(common, fa), Grow(common, fb)>>
                  /\ cut = Len(common) - 1
       \/ \E kind \in BaseKinds, n \in {1, MinPoints - 1} :
            /\ prices = <<SubSeq(Base(kind), 1, n), SubSeq(Base(kind), 1, n)>>
            /\ cut = n - 1
    /\ frames = None
    /\ scans = None
    /\ latest_signals = None
    /\ spc = "prices"
    /\ BacktestIdle
    /\ BatchIdle
    /\ RecIdle
    /\ TraceIdle
    /\ FetchIdle

(* df = calculate_technical_indicators(df) *)
CalculateIndicators ==
    /\ spc = "prices"
    /\ frames' = Some(<<calculate_technical_indicators(prices[1]),
                        calculate_technical_indicators(prices[2])>>)
    /\ spc' = "indicators"
    /\ UNCHANGED <<prices, cut, scans, latest_signals>>
    /\ UNCHANGED detector_aux

(* signal_data = detect_trading_signals(df) *)
DetectLatest ==
    /\ spc = "indicators"
    /\ latest_signals = None
    /\ latest_signals' = Some(<<detect_trading_signals(Val(frames)[1]),
                                detect_trading_signals(Val(frames)[2])>>)
    /\ UNCHANGED <<prices, cut, frames, scans, spc>>
    /\ UNCHANGED detector_aux

(* signal_data = detect_trading_signals_for_backtest(df) *)
ScanHistory ==
    /\ spc = "indicators"
    /\ scans = None
    /\ scans' = Some(<<detect_trading_signals_for_backtest(Val(frames)[1]),
                       detect_trading_signals_for_backtest(Val(frames)[2])>>)
    /\ UNCHANGED <<prices, cut, frames, latest_signals, spc>>
    /\ UNCHANGED detector_aux

DetectorNext ==
    \/ CalculateIndicators
    \/ DetectLatest
    \/ ScanHistory

DetectorSpec == DetectorInit /\ [][DetectorNext]_vars

-----------------------------------------------------------------------------
(* FinancialAgent.analyze_stock and what it calls                           *)
(*                                                                         *)
(* Fixed point: confidence and trend strength in thousandths, the           *)
(* recommendation score in millionths, daily returns in basis points.       *)

(* Python truthiness of an Optional[float] *)
Truthy(x) == notna(x) /\ Val(x) # 0

(* calculate_price_statistics(df), df not empty *)
calculate_price_statistics(p) ==
    LET latest_close == Last(p).close
        start_price == p[1].close
    IN [current_price |-> latest_close,
        price_change_pct |-> IF start_price > 0
                             THEN Rat((latest_close - start_price) * 100, start_price)
                             ELSE Rat(0, 1)]

(* df['close'].pct_change().dropna(), in basis points *)
Returns(p) == [n \in 1..(Len(p) - 1) |-> ((p[n + 1].close - p[n].close) * 10000) \div p[n].close]

(* returns.std() squared (ddof = 1); NaN for fewer than two returns *)
ReturnsVariance(r) ==
    IF Len(r) < 2 THEN NaN
    ELSE Some((Len(r) * SumSeq([n \in 1..Len(r) |-> r[n] * r[n]]) - SumSeq(r) * SumSeq(r))
              \div (Len(r) * (Len(r) - 1)))

(* cumulative.expanding().max() at the n-th return: the cumulative product *)
(* of the n-th return is close[n + 1] / close[1]                            *)
RECURSIVE RunningMax(_, _)
RunningMax(p, n) ==
    IF n = 1 THEN p[2].close
    ELSE LET m == RunningMax(p, n - 1) IN IF p[n + 1].close > m THEN p[n + 1].close ELSE m

(* abs(drawdown.min()) * 100 > pct *)
DrawdownAbove(p, pct) ==
    \E n \in 1..(Len(p) - 1) :
        (RunningMax(p, n) - p[n + 1].close) * 100 > pct * RunningMax(p, n)

(* volatility > limit/100, volatility = returns.std() * sqrt(252) *)
VolatilityAbove(p, limit) ==
    LET variance == ReturnsVariance(Returns(p))
    IN notna(variance) /\ Val(variance) * 252 > limit * limit * 10000

(* calculate_risk_metrics(df) *)
calculate_risk_metrics(p) ==
    IF Len(p) < 2 THEN [risk_level |-> "low"]
    ELSE IF VolatilityAbove(p, 30) \/ DrawdownAbove(p, 30) THEN [risk_level |-> "high"]
    ELSE IF VolatilityAbove(p, 15) \/ DrawdownAbove(p, 15) THEN [risk_level |-> "medium"]
    ELSE [risk_level |-> "low"]

(* 'up' if df['close'].iloc[-1] > df['close'].iloc[-n] else 'down' *)
TrendOver(p, n) == IF Last(p).close > p[Len(p) + 1 - n].close THEN "up" ELSE "down"

(* analyze_trend(df) *)
analyze_trend(p) ==
    IF Len(p) < 60 THEN [short_term_trend |-> "sideways", trend_strength |-> 500]
    ELSE
      LET trends == <<TrendOver(p, 5), TrendOver(p, 20), TrendOver(p, 60)>>
          ups == Cardinality({n \in 1..3 : trends[n] = "up"})
      IN [short_term_trend |-> trends[1],
          trend_strength |-> IF ups = 3 \/ ups = 0 THEN 900 ELSE 700]

(* What the LLM collaborator does with one call of forward *)
LlmOutcomes == {"raises", "blank", "content"}

(* The fallback assessment: the template filled in *)
FallbackAssessment(price_stats, risk_metrics) ==
    <<"fallback", price_stats.price_change_pct, risk_metrics.risk_level>>

(* generate_overall_assessment(...): (text, confidence); llm is what the    *)
(* forward call does: it raises, it returns nothing usable (no response, no *)
(* message, empty content), or it returns content                           *)
generate_overall_assessment(price_stats, technical_indicators, trading_signals, risk_metrics, llm) ==
    IF llm = "content"
    THEN LET c1 == IF Truthy(technical_indicators.ma5) /\ Truthy(technical_indicators.ma30)
                   THEN 100 ELSE 0
             c2 == IF Truthy(technical_indicators.rsi) THEN 100 ELSE 0
             c3 == IF trading_signals # <<>> THEN 100 ELSE 0
         IN [raised |-> FALSE, text |-> <<"llm">>,
             confidence |-> Min(700 + c1 + c2 + c3, 1000)]
    ELSE [raised |-> FALSE, text |-> FallbackAssessment(price_stats, risk_metrics),
          confidence |-> 600]

(* analyze_stock up to the await of generate_overall_assessment *)
AnalysisBefore(stock_code, p) ==
    LET frame == calculate_technical_indicators(p)
        latest == Last(frame)
    IN [stock_code |-> stock_code,
        data_points |-> Len(p),
        technical_indicators |-> [ma5 |-> latest.ma5, ma30 |-> latest.ma30,
                                  rsi |-> latest.rsi, macd |-> latest.macd],
        trading_signals |-> detect_trading_signals(frame),
        price_stats |-> calculate_price_statistics(p),
        risk_metrics |-> calculate_risk_metrics(p),
        trend_analysis |-> analyze_trend(p)]

(* analyze_stock(stock_code, ...) on the data p that get_stock_data returned *)
analyze_stock(stock_code, p, llm) ==
    IF p = <<>> THEN [raised |-> TRUE, value |-> None]
    ELSE
      LET a == AnalysisBefore(stock_code, p)
          assessment == generate_overall_assessment(a.price_stats, a.technical_indicators,
                                                    a.trading_signals, a.risk_metrics, llm)
      IN [raised |-> assessment.raised,
          value |-> IF assessment.raised THEN None
                    ELSE Some([stock_code |-> a.stock_code,
                               data_points |-> a.data_points,
                               technical_indicators |-> a.technical_indicators,
                               trading_signals |-> a.trading_signals,
                               price_stats |-> a.price_stats,
                               risk_metrics |-> a.risk_metrics,
                               trend_analysis |-> a.trend_analysis,
                               overall_assessment |-> assessment.text,
                               confidence_score |-> assessment.confidence])]

-----------------------------------------------------------------------------
(* The market: the daily data of the stock codes *)

(* A stock that lost 2 a day for n days *)
Slide(n) == [m \in 1..n |-> PricePoint(m - 1, 122 - 2 * m, 1000)]

Listing == <<"000001", "000002", "600000", "300750">>

MarketData(stock_code) ==
    CASE stock_code = "000001" -> Base("flat")
      [] stock_code = "000002" -> Base("rising")
      [] stock_code = "600000" -> Slide(MinPoints)
      [] stock_code = "300750" -> SubSeq(Base("flat"), 1, 1)

(* get_stock_data(stock_code, ...): the data, or an empty frame when the    *)
(* fetch failed max_retries times                                           *)
get_stock_data(stock_code) == {MarketData(stock_code), <<>>}

(* analyze_stock on the data of the market, for every code and every       *)
(* behaviour of the LLM                                                     *)
MarketAnalyses ==
    [n \in 1..Len(Listing) |->
        [llm \in LlmOutcomes |-> analyze_stock(Listing[n], MarketData(Listing[n]), llm)]]

IndexOf(stock_code) == CHOOSE n \in 1..Len(Listing) : Listing[n] = stock_code

(* analyze_stock(stock_code, ...) when get_stock_data returns p *)
Analysis(stock_code, p, llm) ==
    IF p = MarketData(stock_code) THEN MarketAnalyses[IndexOf(stock_code)][llm]
    ELSE analyze_stock(stock_code, p, llm)

(* The lists of at most n codes, in the order of the listing *)
CodeLists(n) ==
    UNION {{[m \in 1..len |-> Listing[pick[m]]] :
               pick \in {f \in [1..len -> 1..Len(Listing)] :
                            \A a, b \in 1..len : a < b => f[a] < f[b]}} :
           len \in 1..n}

-----------------------------------------------------------------------------
(* FinancialAgent.batch_analyze_stocks                                      *)
(*                                                                         *)
(* Each analyze_one task runs without interruption from one await to the    *)
(* next: from its start (or its wake-up) through semaphore.acquire and      *)
(* get_stock_data to the await of the LLM, and from the LLM's answer to its *)
(* end.                                                                     *)

(* A task as asyncio.as_completed schedules it *)
NewTask == [pc |-> "created", df |-> <<>>, llm |-> None, outcome |-> None,
            exception |-> FALSE, value |-> None]

(* results = [], semaphore = asyncio.Semaphore(max_concurrent), the tasks,  *)
(* and the first await of the as_completed loop                             *)
BatchInit ==
    /\ stock_codes \in CodeLists(MaxStocks)
    /\ max_concurrent \in 1..DefaultMaxConcurrent
    /\ semaphore = max_concurrent
    /\ task = [s \in 1..Len(stock_codes) |-> NewTask]
    /\ done_queue = <<>>
    /\ results = <<>>
    /\ completed = 0
    /\ bpc = "collecting"
    /\ BacktestIdle
    /\ DetectorIdle
    /\ RecIdle
    /\ TraceIdle
    /\ FetchIdle

(* Semaphore.locked() *)
locked_Never(value) == FALSE

locked(value) == value = 0

(* analyze_one: try: return await analyze_stock(...) / except Exception:    *)
(* return None. outcome is what analyze_stock did.                          *)
analyze_one_Unguarded(outcome) ==
    [exception |-> outcome.raised, value |-> outcome.value]

analyze_one(outcome) ==
    IF outcome.raised THEN [exception |-> FALSE, value |-> None]
    ELSE [exception |-> FALSE, value |-> outcome.value]

(* The end of task s: __aexit__ releases the semaphore, the task is done *)
Finished(s, outcome) ==
    [pc |-> "done", df |-> <<>>, llm |-> task[s].llm, outcome |-> Some(outcome),
     exception |-> analyze_one(outcome).exception, value |-> analyze_one(outcome).value]

(* Task s runs from semaphore.acquire() to its next await *)
Enter(s) ==
    /\ bpc = "collecting"
    /\ s \in 1..Len(stock_codes)
    /\ task[s].pc \in {"created", "waiting"}
    /\ IF locked(semaphore)
       THEN /\ task[s].pc = "created"
            /\ task' = [task EXCEPT ![s].pc = "waiting"]
            /\ UNCHANGED <<semaphore, done_queue>>
       ELSE \E p \in get_stock_data(stock_codes[s]) :
              IF p = <<>>
              THEN /\ task' = [task EXCEPT ![s] = Finished(s, Analysis(stock_codes[s], p, "raises"))]
                   /\ done_queue' = Append(done_queue, s)
                   /\ UNCHANGED semaphore
              ELSE /\ task' = [task EXCEPT ![s].pc = "llm", ![s].df = p]
                   /\ semaphore' = semaphore - 1
                   /\ UNCHANGED done_queue
    /\ UNCHANGED <<stock_codes, max_concurrent, results, completed, bpc>>
    /\ UNCHANGED batch_aux

(* The LLM answers task s: the rest of analyze_stock, then the release *)
LlmReturns(s) ==
    /\ bpc = "collecting"
    /\ s \in 1..Len(stock_codes)
    /\ task[s].pc = "llm"
    /\ \E llm \in LlmOutcomes :
         task' = [task EXCEPT ![s] =
                    [Finished(s, Analysis(stock_codes[s], task[s].df, llm))
                       EXCEPT !.llm = Some(llm)]]
    /\ semaphore' = semaphore + 1
    /\ done_queue' = Append(done_queue, s)
    /\ UNCHANGED <<stock_codes, max_concurrent, results, completed, bpc>>
    /\ UNCHANGED batch_aux

(* One iteration of the as_completed loop: result = await task, and the     *)
(* return after the last one                                                *)
Collect ==
    /\ bpc = "collecting"
    /\ done_queue # <<>>
    /\ LET s == Head(done_queue)
       IN IF task[s].exception
          THEN /\ bpc' = "raised"
               /\ UNCHANGED <<results, completed>>
          ELSE /\ results' = IF task[s].value # None
                             THEN Append(results, Val(task[s].value)) ELSE results
               /\ completed' = completed + 1
               /\ bpc' = IF completed + 1 = Len(stock_codes) THEN "returned" ELSE "collecting"
    /\ done_queue' = Tail(done_queue)
    /\ UNCHANGED <<stock_codes, max_concurrent, semaphore, task>>
    /\ UNCHANGED batch_aux

BatchNext ==
    \/ \E s \in 1..Len(stock_codes) : Enter(s)
    \/ \E s \in 1..Len(stock_codes) : LlmReturns(s)
    \/ Collect

BatchSpec == BatchInit /\ [][BatchNext]_vars

(* The event loop runs every task that is ready, and every call of the LLM  *)
(* ends: it returns or it raises                                            *)
FairBatchSpec ==
    /\ BatchSpec
    /\ \A s \in 1..MaxStocks : WF_vars(Enter(s)) /\ WF_vars(LlmReturns(s))
    /\ WF_vars(Collect)

-----------------------------------------------------------------------------
(* FinancialAgent.recommend_stocks, from the analyses of the batch on *)

(* sum(s.signal_strength for s in signals) / len(signals) * weight/100, in  *)
(* millionths; strengths are in thousandths                                 *)
AverageStrength(sigs, weight) ==
    (SumSeq([n \in 1..Len(sigs) |-> sigs[n].signal_strength]) * 10 * weight) \div Len(sigs)

SignalsOfType(a, type) == SelectSeq(a.trading_signals, LAMBDA x : x.signal_type = type)

(* _calculate_recommendation_score(analysis), in millionths *)
calculate_recommendation_score(a) ==
    LET pct == a.price_stats.price_change_pct
        price_part ==
            IF RatLess(Rat(10, 1), pct) THEN 150000
            ELSE IF RatLess(Rat(5, 1), pct) THEN 100000
            ELSE IF RatLess(Rat(0, 1), pct) THEN 50000
            ELSE IF RatLess(pct, Rat(-10, 1)) THEN -100000
            ELSE IF RatLess(pct, Rat(-5, 1)) THEN -50000
            ELSE 0
        buy_signals == SignalsOfType(a, "buy")
        sell_signals == SignalsOfType(a, "sell")
        buy_part == IF buy_signals # <<>> THEN AverageStrength(buy_signals, 15) ELSE 0
        sell_part == IF sell_signals # <<>> THEN AverageStrength(sell_signals, 10) ELSE 0
        strength == a.trend_analysis.trend_strength
        trend_part ==
            (IF strength > 700
             THEN (IF a.trend_analysis.short_term_trend = "up" THEN 100000
                   ELSE IF a.trend_analysis.short_term_trend = "down" THEN -50000
                   ELSE 0)
             ELSE 0) + (strength - 500) * 100
        risk_part ==
            IF a.risk_metrics.risk_level = "low" THEN 100000
            ELSE IF a.risk_metrics.risk_level = "medium" THEN 50000
            ELSE -50000
        rsi == a.technical_indicators.rsi
        rsi_part ==
            IF Truthy(rsi)
            THEN (IF 30 < Val(rsi) /\ Val(rsi) < 70 THEN 50000
                  ELSE IF Val(rsi) < 30 THEN 30000 ELSE 0)
            ELSE 0
        score == 500000 + price_part + buy_part - sell_part + trend_part + risk_part + rsi_part
    IN IF score < 0 THEN 0 ELSE IF score > 1000000 THEN 1000000 ELSE score

(* The orders in which the batch can return the analyses of at most n      *)
(* different stocks                                                         *)
AnalysisLists(n) ==
    UNION {{[m \in 1..len |-> Val(MarketAnalyses[pick[m]]["content"].value)] :
               pick \in {f \in [1..len -> 1..Len(Listing)] :
                            \A a, b \in 1..len : a # b => f[a] # f[b]}} :
           len \in 0..n}

RecRequests ==
    [max_stocks : {1, 2, DefaultMaxStocks},
     min_recommendation_score : {DefaultMinScore, 600000}]

(* analyses = await self.batch_analyze_stocks(...) has returned *)
RecommendInit ==
    /\ analyses \in AnalysisLists(MaxStocks)
    /\ rec_request \in RecRequests
    /\ recommendations_data = <<>>
    /\ recommendations = <<>>
    /\ rpc = "analysed"
    /\ BacktestIdle
    /\ DetectorIdle
    /\ BatchIdle
    /\ TraceIdle
    /\ FetchIdle

(* The entry of recommendations_data for one analysis *)
RecData(a) ==
    [stock_code |-> a.stock_code,
     score |-> calculate_recommendation_score(a),
     analysis |-> a,
     current_price |-> a.price_stats.current_price,
     risk_level |-> a.risk_metrics.risk_level]

(* for analysis in analyses: ... if score < min_recommendation_score: continue *)
Scored(as, min_score) ==
    SelectSeq([n \in 1..Len(as) |-> RecData(as[n])], LAMBDA d : ~(d.score < min_score))

(* list.sort(key=score, reverse=True) is stable: an entry goes behind the   *)
(* entries whose score is at least its own                                  *)
InsertByScore_TiesFirst(sorted, d) ==
    LET ahead == Cardinality({n \in 1..Len(sorted) : sorted[n].score > d.score})
    IN SubSeq(sorted, 1, ahead) \o <<d>> \o SubSeq(sorted, ahead + 1, Len(sorted))

InsertByScore(sorted, d) ==
    LET ahead == Cardinality({n \in 1..Len(sorted) : sorted[n].score >= d.score})
    IN SubSeq(sorted, 1, ahead) \o <<d>> \o SubSeq(sorted, ahead + 1, Len(sorted))

RECURSIVE SortByScore(_, _)
SortByScore(data, sorted) ==
    IF data = <<>> THEN sorted
    ELSE SortByScore(Tail(data), InsertByScore(sorted, Head(data)))

(* recommendations_data[:max_stocks], max_stocks >= 1 *)
Top(data, max_stocks) == SubSeq(data, 1, Min(max_stocks, Len(data)))

(* StockRecommendation(rank=idx, ...) *)
StockRecommendation(idx, d, reason) ==
    [rank |-> idx, stock_code |-> d.stock_code, recommendation_score |-> d.score,
     recommendation_reason |-> reason, current_price |-> d.current_price,
     risk_level |-> d.risk_level, analysis_summary |-> d.analysis]

(* if not analyses: raise ValueError; otherwise the scores, the filter and  *)
(* the sort, up to the first await                                          *)
Rank ==
    /\ rpc = "analysed"
    /\ IF analyses = <<>>
       THEN /\ rpc' = "raised"
            /\ UNCHANGED recommendations_data
       ELSE /\ recommendations_data' =
                  SortByScore(Scored(analyses, rec_request.min_recommendation_score), <<>>)
            /\ rpc' = IF recommendations_data' = <<>> THEN "returned" ELSE "reasons"
    /\ UNCHANGED <<analyses, rec_request, recommendations>>
    /\ UNCHANGED rec_aux

(* reason = await self._generate_recommendation_reason(...): the LLM's text *)
(* or the fallback text; then the recommendation of rank idx                *)
GenerateReason ==
    /\ rpc = "reasons"
    /\ LET idx == Len(recommendations) + 1
           top == Top(recommendations_data, rec_request.max_stocks)
       IN /\ \E reason \in {"llm", "fallback"} :
                recommendations' =
                    Append(recommendations, StockRecommendation(idx, top[idx], reason))
          /\ rpc' = IF idx = Len(top) THEN "summary" ELSE "reasons"
    /\ UNCHANGED <<analyses, rec_request, recommendations_data>>
    /\ UNCHANGED rec_aux

(* comparison_summary = await self._generate_comparison_summary(...), then  *)
(* the return of the StockRecommendationResult                              *)
Summarise ==
    /\ rpc = "summary"
    /\ rpc' = "returned"
    /\ UNCHANGED <<analyses, rec_request, recommendations_data, recommendations>>
    /\ UNCHANGED rec_aux

RecommendNext ==
    \/ Rank
    \/ GenerateReason
    \/ Summarise

RecommendSpec == RecommendInit /\ [][RecommendNext]_vars

-----------------------------------------------------------------------------
(* News tracing: process_trace_task, NewsTraceAgent.trace_news and          *)
(* cancel_trace_task, for one task id                                       *)
(*                                                                         *)
(* The coroutine runs without interruption from one await to the next, so   *)
(* all the cancellation checks between two awaits read the same flag: a     *)
(* step models its first check, and the code up to the next await.          *)

(* task_cancelled.get(task_id, False) *)
Flag == task_cancelled # None /\ Val(task_cancelled)

check_cancelled_Unset == FALSE

(* check_cancelled(), the callback process_trace_task hands to trace_news *)
check_cancelled == Flag

(* max_iterations_map *)
MaxIterationsOf(max_depth) ==
    CASE max_depth = 1 -> 3
      [] max_depth = 2 -> 6
      [] max_depth = 3 -> 9
      [] max_depth = 4 -> 12

(* The messages: role, whether the message carries tool calls, the length   *)
(* of its content, and for a tool result the URL it reports                 *)
Message(role, tool_calls, content_length, url) ==
    [role |-> role, tool_calls |-> tool_calls, content_length |-> content_length, url |-> url]

(* messages: the system prompt and the claim *)
Prompt == <<Message("system", FALSE, 200, None), Message("user", FALSE, 200, None)>>

Urls == {"news.example/a", "news.example/b"}

(* What one call of llm.forward(messages, tools) returns: a tool call with  *)
(* its result, a final answer, a short answer, or nothing                   *)
Responses ==
    {<<Message("assistant", TRUE, 0, None), Message("tool", FALSE, 200, Some(u))>> : u \in Urls}
        \cup {<<Message("assistant", FALSE, 200, None)>>,
              <<Message("assistant", FALSE, 20, None)>>,
              <<>>}

(* _extract_sources_from_messages(messages): the URLs of the tool results,  *)
(* each once, in the order of their first mention                           *)
RECURSIVE UniqueUrls(_, _)
UniqueUrls(messages, seen) ==
    IF messages = <<>> THEN seen
    ELSE IF /\ Head(messages).role = "tool"
            /\ Head(messages).url # None
            /\ \A n \in 1..Len(seen) : seen[n] # Val(Head(messages).url)
         THEN UniqueUrls(Tail(messages), Append(seen, Val(Head(messages).url)))
         ELSE UniqueUrls(Tail(messages), seen)

extract_sources(messages) == UniqueUrls(messages, <<>>)

(* TraceResult(...): the sources and the analysis text *)
TraceResult(sources, analysis) == [sources |-> sources, analysis |-> analysis]

(* The except blocks: _extract_sources_from_messages(all_messages if         *)
(* all_messages else messages), empty timeline, and the analysis text       *)
FallbackResult(analysis) ==
    TraceResult(extract_sources(IF all_messages # <<>> THEN all_messages ELSE Prompt), analysis)

(* A task as trace_news_async creates it, to depth 1..MaxDepth *)
TraceInit ==
    /\ task_status = "pending"
    /\ task_result = None
    /\ task_cancelled = None
    /\ max_iterations \in {MaxIterationsOf(d) : d \in 1..MaxDepth}
    /\ iteration = 0
    /\ all_messages = <<>>
    /\ last_tool_call_count = 0
    /\ trace_outcome = None
    /\ cancel_point = None
    /\ tpc = "queued"
    /\ BacktestIdle
    /\ DetectorIdle
    /\ BatchIdle
    /\ RecIdle
    /\ FetchIdle

(* cancel_trace_task(task_id) *)
CancelTraceTask ==
    /\ task_status \in {"pending", "processing"}
    /\ task_cancelled' = Some(TRUE)
    /\ task_status' = "cancelled"
    /\ UNCHANGED <<task_result, max_iterations, iteration, all_messages,
                   last_tool_call_count, trace_outcome, cancel_point, tpc>>
    /\ UNCHANGED trace_aux

(* process_trace_task up to await asyncio.sleep(0.1) *)
StartTask ==
    /\ tpc = "queued"
    /\ task_cancelled' = Some(FALSE)
    /\ task_status' = "processing"
    /\ tpc' = "init_sleep"
    /\ UNCHANGED <<task_result, max_iterations, iteration, all_messages,
                   last_tool_call_count, trace_outcome, cancel_point>>
    /\ UNCHANGED trace_aux

(* The head of `while iteration < max_iterations` of trace_news, reached    *)
(* with the flag clear: to the await of llm.forward, or past the loop and   *)
(* the source extraction to the await of _extract_timeline                  *)
LoopHead ==
    IF iteration < max_iterations
    THEN /\ iteration' = iteration + 1
         /\ tpc' = "llm"
    ELSE /\ iteration' = iteration
         /\ tpc' = "timeline"

(* A check point finds the flag set: raise CancelledError, the except       *)
(* block of trace_news builds the partial result and re-raises, the except  *)
(* block of process_trace_task marks the task cancelled and returns, and    *)
(* its finally block awaits the monitor                                     *)
CancelledAt(point) ==
    /\ cancel_point' = Some(point)
    /\ trace_outcome' = [kind |-> "raised", exception |-> "CancelledError",
                         discarded |-> FallbackResult("cancelled")]
    /\ task_status' = "cancelled"
    /\ tpc' = "returning"
    /\ UNCHANGED <<task_result, task_cancelled, max_iterations, iteration, all_messages,
                   last_tool_call_count>>

(* trace_news returns result to process_trace_task: the check after the     *)
(* call, then the finally block awaits the monitor                          *)
ReturnedTo(trace_result) ==
    /\ trace_outcome' = [kind |-> "returned", result |-> trace_result]
    /\ IF Flag
       THEN /\ task_status' = "cancelled"
            /\ tpc' = "returning"
       ELSE /\ tpc' = "monitor"
            /\ UNCHANGED task_status
    /\ UNCHANGED <<task_result, task_cancelled, max_iterations, iteration, all_messages,
                   last_tool_call_count, cancel_point>>

(* After asyncio.sleep(0.1): the check, the monitor, and trace_news up to   *)
(* its first await                                                          *)
AfterInitSleep ==
    /\ tpc = "init_sleep"
    /\ IF Flag
       THEN /\ task_status' = "cancelled"
            /\ task_cancelled' = None
            /\ tpc' = "done"
            /\ UNCHANGED iteration
       ELSE /\ LoopHead
            /\ UNCHANGED <<task_status, task_cancelled>>
    /\ UNCHANGED <<task_result, max_iterations, all_messages, last_tool_call_count,
                   trace_outcome, cancel_point>>
    /\ UNCHANGED trace_aux

(* sum(1 for msg in iteration_messages if msg.tool_calls) *)
ToolCalls(response) == Cardinality({n \in 1..Len(response) : response[n].tool_calls})

(* The two break conditions after the messages of an iteration *)
Stops(response) ==
    LET last_message == response[Len(response)]
        calls == ToolCalls(response)
    IN \/ /\ ~last_message.tool_calls
          /\ last_message.content_length > 50
          /\ iteration >= 3
          /\ calls = 0
       \/ /\ calls = 0
          /\ last_tool_call_count = 0
          /\ iteration > 2

(* llm.forward ends: it raises, and the except Exception block returns the  *)
(* fallback result; or it returns, and the loop body runs to the delay or   *)
(* leaves the loop                                                          *)
LlmAnswers ==
    /\ tpc = "llm"
    /\ \/ ReturnedTo(FallbackResult("error"))
       \/ /\ check_cancelled
          /\ CancelledAt("after LLM call")
       \/ /\ ~check_cancelled
          /\ \E response \in Responses :
               IF response = <<>>
               THEN /\ tpc' = "timeline"
                    /\ UNCHANGED <<all_messages, last_tool_call_count>>
               ELSE /\ all_messages' = all_messages \o response
                    /\ IF Stops(response)
                       THEN /\ tpc' = "timeline"
                            /\ UNCHANGED last_tool_call_count
                       ELSE /\ tpc' = "delay"
                            /\ last_tool_call_count' = ToolCalls(response)
          /\ UNCHANGED <<task_status, task_result, task_cancelled, max_iterations, iteration,
                         trace_outcome, cancel_point>>
    /\ UNCHANGED trace_aux

(* After asyncio.sleep(0.5) *)
DelayOver ==
    /\ tpc = "delay"
    /\ IF check_cancelled
       THEN CancelledAt("after delay")
       ELSE /\ LoopHead
            /\ UNCHANGED <<task_status, task_result, task_cancelled, max_iterations,
                           all_messages, last_tool_call_count, trace_outcome, cancel_point>>
    /\ UNCHANGED trace_aux

(* The phases of the deep analysis, each an await of the LLM *)
Phases == <<"timeline", "causal", "graph", "hierarchy">>

PhaseIndex(phase) == CHOOSE n \in 1..Len(Phases) : Phases[n] = phase

(* A phase of the deep analysis ends; after the last one trace_news returns *)
(* the complete result                                                      *)
PhaseOver ==
    /\ tpc \in {Phases[n] : n \in 1..Len(Phases)}
    /\ IF check_cancelled
       THEN CancelledAt(tpc)
       ELSE IF PhaseIndex(tpc) = Len(Phases)
            THEN ReturnedTo(TraceResult(extract_sources(all_messages), "deep"))
            ELSE /\ tpc' = Phases[PhaseIndex(tpc) + 1]
                 /\ UNCHANGED <<task_status, task_result, task_cancelled, max_iterations,
                                iteration, all_messages, last_tool_call_count, trace_outcome,
                                cancel_point>>
    /\ UNCHANGED trace_aux

(* The monitor has stopped after the return of trace_news: the check        *)
(* before finalizing, then await asyncio.sleep(0.2)                         *)
MonitorStopped ==
    /\ tpc = "monitor"
    /\ IF Flag
       THEN /\ task_status' = "cancelled"
            /\ task_cancelled' = None
            /\ tpc' = "done"
       ELSE /\ tpc' = "finalizing"
            /\ UNCHANGED <<task_status, task_cancelled>>
    /\ UNCHANGED <<task_result, max_iterations, iteration, all_messages,
                   last_tool_call_count, trace_outcome, cancel_point>>
    /\ UNCHANGED trace_aux

(* The monitor has stopped while process_trace_task is returning: the outer *)
(* finally block drops the flag                                             *)
Returning ==
    /\ tpc = "returning"
    /\ task_cancelled' = None
    /\ tpc' = "done"
    /\ UNCHANGED <<task_status, task_result, max_iterations, iteration, all_messages,
                   last_tool_call_count, trace_outcome, cancel_point>>
    /\ UNCHANGED trace_aux

(* After asyncio.sleep(0.2): the task is completed with its result *)
Finalize ==
    /\ tpc = "finalizing"
    /\ task_status' = "completed"
    /\ task_result' = Some(trace_outcome.result)
    /\ task_cancelled' = None
    /\ tpc' = "done"
    /\ UNCHANGED <<max_iterations, iteration, all_messages, last_tool_call_count,
                   trace_outcome, cancel_point>>
    /\ UNCHANGED trace_aux

TraceNext ==
    \/ CancelTraceTask
    \/ StartTask
    \/ AfterInitSleep
    \/ LlmAnswers
    \/ DelayOver
    \/ PhaseOver
    \/ MonitorStopped
    \/ Returning
    \/ Finalize

TraceSpec == TraceInit /\ [][TraceNext]_vars

-----------------------------------------------------------------------------
(* FinancialAgent.get_stock_data: one call, which runs from its first line  *)
(* to its return without an await. Times are in tenths of a second.         *)

(* self.request_delay = 1.5 *)
RequestDelay == 15

(* time.sleep(5) after a connection error or a timeout *)
ConnectionPause == 50

(* wait_time = self.request_delay * (2 ** attempt) *)
wait_time_Linear(n) == RequestDelay * n

wait_time(n) == RequestDelay * (2 ^ n)

(* What ak.stock_zh_a_hist does at one attempt: it raises (a connection     *)
(* error, a timeout, any other Exception), or it returns a frame: empty,    *)
(* without one of the required columns, with dates pd.to_datetime rejects,  *)
(* or well formed with its rows in any order                                *)
FetchFailures == {"connection", "timeout", "error", "empty", "missing_cols", "bad_dates"}

Quotes ==
    {<<PricePoint(0, 50, 1000)>>,
     <<PricePoint(0, 50, 1000), PricePoint(1, 51, 1000)>>,
     <<PricePoint(1, 51, 1000), PricePoint(0, 50, 1000)>>}

FetchResponses ==
    {[kind |-> f, rows |-> <<>>] : f \in FetchFailures}
        \cup {[kind |-> "frame", rows |-> q] : q \in Quotes}

(* The attempt ends in the except block *)
Raises(response) == response.kind \in {"connection", "timeout", "error", "bad_dates"}

(* "Connection" in error_msg or "timeout" in error_msg.lower() *)
ConnectionError(response) == response.kind \in {"connection", "timeout"}

(* df.sort_values('date').reset_index(drop=True) *)
RECURSIVE sort_values(_)
sort_values(rows) ==
    IF rows = <<>> THEN <<>>
    ELSE LET first == CHOOSE n \in 1..Len(rows) :
                          \A m \in 1..Len(rows) :
                              \/ rows[n].date < rows[m].date
                              \/ rows[n].date = rows[m].date /\ n <= m
             rest == [m \in 1..(Len(rows) - 1) |-> IF m < first THEN rows[m] ELSE rows[m + 1]]
         IN <<rows[first]>> \o sort_values(rest)

(* One call of time.sleep *)
Sleep(n, seconds, at) == [attempt |-> n, seconds |-> seconds, at |-> at]

(* A call get_stock_data(stock_code, start_date, end_date, max_retries) *)
FetchInit ==
    /\ akshare_available \in BOOLEAN
    /\ max_retries \in 0..MaxRetries
    /\ attempt = 0
    /\ fetch_log = <<>>
    /\ slept = <<>>
    /\ fetched = None
    /\ fpc = "called"
    /\ BacktestIdle
    /\ DetectorIdle
    /\ BatchIdle
    /\ RecIdle
    /\ TraceIdle

(* if not AKSHARE_AVAILABLE: return pd.DataFrame() *)
FetchUnavailable ==
    /\ fpc = "called"
    /\ ~akshare_available
    /\ fetched' = Some(<<>>)
    /\ fpc' = "returned"
    /\ UNCHANGED <<akshare_available, max_retries, attempt, fetch_log, slept>>
    /\ UNCHANGED fetch_aux

(* One pass of `for attempt in range(max_retries)`: the wait, the fetch,    *)
(* then the return of the sorted frame, or `continue`, or the except block  *)
FetchAttempt ==
    /\ fpc \in {"called", "retrying"}
    /\ akshare_available
    /\ attempt < max_retries
    /\ \E response \in FetchResponses :
         LET backoff == IF attempt > 0
                        THEN <<Sleep(attempt, wait_time(attempt), "backoff")>>
                        ELSE <<>>
         IN /\ fetch_log' = Append(fetch_log, response)
            /\ IF response.kind = "frame"
               THEN /\ slept' = slept \o backoff \o <<Sleep(attempt, RequestDelay, "fetched")>>
                    /\ fetched' = Some(sort_values(response.rows))
                    /\ fpc' = "returned"
                    /\ UNCHANGED attempt
               ELSE /\ slept' = slept \o backoff \o
                                  (IF Raises(response) /\ ConnectionError(response)
                                   THEN <<Sleep(attempt, ConnectionPause, "except")>>
                                   ELSE <<>>)
                    /\ attempt' = attempt + 1
                    /\ fpc' = "retrying"
                    /\ UNCHANGED fetched
    /\ UNCHANGED <<akshare_available, max_retries>>
    /\ UNCHANGED fetch_aux

(* The loop is over: return pd.DataFrame() *)
FetchExhausted ==
    /\ fpc \in {"called", "retrying"}
    /\ akshare_available
    /\ attempt = max_retries
    /\ fetched' = Some(<<>>)
    /\ fpc' = "returned"
    /\ UNCHANGED <<akshare_available, max_retries, attempt, fetch_log, slept>>
    /\ UNCHANGED fetch_aux

FetchNext ==
    \/ FetchUnavailable
    \/ FetchAttempt
    \/ FetchExhausted

FetchSpec == FetchInit /\ [][FetchNext]_vars

(* The call is synchronous: once made it runs to its return *)
FairFetchSpec == FetchSpec /\ WF_vars(FetchNext)

-----------------------------------------------------------------------------
(* End to end: a backtest of the signal_based or the ma_cross strategy on   *)
(* the indicators of a close series that rises every day                    *)

ScenarioDays == MinPoints + 10

(* A series of n daily closes that starts at first and gains step a day, *)
(* with a constant volume                                                *)
Rising(first, step, n) ==
    [m \in 1..n |-> PricePoint(m - 1, first + step * (m - 1), 1000)]

ScenarioRequests ==
    {r \in Requests :
        /\ r.strategy_type \in {"signal_based", "ma_cross"}
        /\ RequestOk(r)
        /\ r.hold_days = None
        /\ r.shares_per_trade = 100}

ScenarioInit ==
    /\ \E r \in ScenarioRequests, first \in {10, 20, 50}, step \in {1, 2} :
          LET d == calculate_technical_indicators(Rising(first, step, ScenarioDays))
          IN /\ request = WithPeriod(r, d)
             /\ df = d
             /\ capital = r.initial_capital
    /\ pc = "start"
    /\ i = 0
    /\ signal_data = <<>>
    /\ eligible_signals = <<>>
    /\ day_signals = <<>>
    /\ k = 1
    /\ position = None
    /\ trades = <<>>
    /\ trade_id = 1
    /\ buys = 0
    /\ result = None
    /\ DetectorIdle
    /\ BatchIdle
    /\ RecIdle
    /\ TraceIdle
    /\ FetchIdle

ScenarioNext ==
    \/ DetectSignals
    \/ BeginRuleStrategy
    \/ SignalDay
    \/ ProcessSignal
    \/ MaCrossDay
    \/ HoldDaysCheck
    \/ CloseRemaining
    \/ ReturnResult

ScenarioSpec == ScenarioInit /\ [][ScenarioNext]_vars

-----------------------------------------------------------------------------
(* Properties of the backtester *)

(* The position the run still holds: after the final close the local       *)
(* variable keeps the dict, but the position is recorded and closed.        *)
Open == position # None /\ pc \notin {"end", "done"}

(* The buy condition of the strategy holds at the branch about to run *)
BuyArrives ==
    \/ pc = "signals" /\ day_signals[k].signal_type = "buy"
    \/ /\ pc = "loop" /\ i < Len(df) /\ request.strategy_type = "ma_cross"
       /\ Gt(current_row.ma5, current_row.ma30) /\ Le(prev_row.ma5, prev_row.ma30)
    \/ /\ pc = "loop" /\ i < Len(df) /\ request.strategy_type = "rsi"
       /\ Lt(current_row.rsi, Some(OversoldThreshold))
    \/ /\ pc = "loop" /\ i < Len(df) /\ request.strategy_type = "macd"
       /\ Gt(current_row.macd, current_row.macd_signal)
       /\ Le(prev_row.macd, prev_row.macd_signal)

(* The sell condition of the strategy holds at the branch about to run *)
SellArrives ==
    \/ pc = "signals" /\ day_signals[k].signal_type = "sell"
    \/ /\ pc = "loop" /\ i < Len(df) /\ request.strategy_type = "ma_cross"
       /\ Lt(current_row.ma5, current_row.ma30) /\ Ge(prev_row.ma5, prev_row.ma30)
    \/ /\ pc = "loop" /\ i < Len(df) /\ request.strategy_type = "rsi"
       /\ Gt(current_row.rsi, Some(OverboughtThreshold))
    \/ /\ pc = "loop" /\ i < Len(df) /\ request.strategy_type = "macd"
       /\ Lt(current_row.macd, current_row.macd_signal)
       /\ Ge(prev_row.macd, prev_row.macd_signal)

(* C1: in every strategy at most one position is open: a buy condition that *)
(* arrives while a position is open changes neither position, capital nor   *)
(* trades, a sell condition that arrives while no position is open changes  *)
(* none of them either, and no step replaces an open position by another.   *)
C1_SinglePosition ==
    [][ /\ (BuyArrives /\ position # None) => UNCHANGED <<position, capital, trades>>
        /\ (SellArrives /\ position = None) => UNCHANGED <<position, capital, trades>>
        /\ (position # None /\ position' # None) => position' = position
      ]_vars

(* A buy signal has just been passed over while a position bought on an     *)
(* earlier day is open.                                                     *)
C1_Witness ==
    /\ pc = "signals"
    /\ k > 1
    /\ day_signals[k - 1].signal_type = "buy"
    /\ position # None
    /\ Val(position).buy_date # current_date

(* C2: every trade is sold strictly later than it was bought. *)
C2_SellAfterBuy ==
    \A n \in 1..Len(trades) : strptime(trades[n].sell_date) > strptime(trades[n].buy_date)

(* C3: the running capital equals initial_capital plus the profits of the   *)
(* closed trades minus the cost of the open position, whichever way the      *)
(* trades were closed.                                                       *)
C3_CapitalLedger ==
    capital = request.initial_capital
              + SumSeq([n \in 1..Len(trades) |-> trades[n].profit])
              - (IF Open THEN Val(position).buy_price * Val(position).shares ELSE 0)

(* A trade closed by a sell signal, then one closed at a loss by the        *)
(* hold-days rule.                                                          *)
C3_Witness ==
    /\ Len(trades) = 2
    /\ trades[1].signal_type.how = "signal"
    /\ trades[2].signal_type.how = "hold_days"
    /\ trades[2].profit < 0


(* C4: a position is opened only with shares = floor(shares_per_trade/100)  *)
(* * 100 and only when the running capital covers shares * price, which is   *)
(* then debited; a buy that fails the test changes neither capital nor       *)
(* trades; the running capital is never negative.                            *)
C4_BuyWithinCapital ==
    /\ [](capital >= 0)
    /\ [][ /\ (position = None /\ position' # None) =>
                LET p == Val(position')
                IN /\ p.shares = (request.shares_per_trade \div 100) * 100
                   /\ capital >= p.shares * p.buy_price
                   /\ capital' = capital - p.shares * p.buy_price
           /\ (BuyArrives /\ position = None /\ position' = None) =>
                UNCHANGED <<capital, trades>>
         ]_vars

(* A buy signal has just been refused for lack of capital. *)
C4_Witness ==
    /\ pc = "signals"
    /\ k > 1
    /\ day_signals[k - 1].signal_type = "buy"
    /\ buys = 0
    /\ capital < current_price * Shares(request)

(* C5: with hold_days set, no position is still open at the end of a day on *)
(* which its calendar days held exceed hold_days.                            *)
C5_HoldDaysEnforced ==
    (/\ pc = "loop" /\ i >= 1 /\ i <= Len(df)
     /\ position # None /\ request.hold_days # None)
    => Row(df, i - 1).date - strptime(Val(position).buy_date) <= Val(request.hold_days)

(* C6: every accepted buy ends as exactly one trade: while the loop runs    *)
(* the accepted buys are the recorded trades plus the open position, a       *)
(* position left by the loop is closed at the last row's close and date, the *)
(* result carries as many trades as buys were accepted, and the run cannot   *)
(* stop before it returns (every step of the loop has a successor: the       *)
(* indices stay within the series and the day's signals).                    *)
C6_EveryBuyRecorded ==
    /\ pc \in {"start", "loop", "signals", "hold", "end", "done", "raised"}
    /\ pc \in {"loop", "signals", "hold"} => i <= Len(df)
    /\ pc \in {"signals", "hold"} => i < Len(df)
    /\ pc = "signals" => k \in 1..Len(day_signals)
    /\ buys = Len(trades) + (IF Open THEN 1 ELSE 0)
    /\ (pc \in {"end", "done"} /\ position # None) =>
          LET t == Last(trades)
          IN /\ t.buy_date = Val(position).buy_date
             /\ t.buy_price = Val(position).buy_price
             /\ t.shares = Val(position).shares
             /\ t.sell_price = Last(df).close
             /\ t.sell_date = strftime(Last(df).date)
    /\ pc = "done" => /\ Val(result).trades = trades
                      /\ Len(Val(result).trades) = buys

(* A run has returned whose last trade is the end-of-backtest close of a    *)
(* position bought on an earlier day.                                        *)
C6_Witness ==
    /\ pc = "done"
    /\ position # None
    /\ Last(trades).signal_type.how = "end"
    /\ Last(trades).hold_days > 0

(* The signals detect_trading_signals returns for df truncated after index j *)
LatestAt(j) == detect_trading_signals(iloc(df, 0, j + 1))

(* The run has called detect_trading_signals_for_backtest on 31 rows or more *)
Scanned ==
    /\ request.strategy_type = "signal_based"
    /\ pc # "start"
    /\ Len(df) >= 31

NotHold(s) == s.signal_type # "hold"

(* C7 as stated: detect_trading_signals_for_backtest(df) is the              *)
(* concatenation, in date order, of detect_trading_signals applied to df     *)
(* truncated at each index >= 30.                                            *)
C7_ScanIsLatestConcat ==
    Scanned =>
       signal_data = Flatten([n \in 1..(Len(df) - 30) |-> LatestAt(29 + n)])

(* C7: detect_trading_signals_for_backtest(df) is the concatenation, in     *)
(* date order, of the buy and sell signals that detect_trading_signals       *)
(* returns for df truncated at each index >= 30, with the same types,        *)
(* strengths, reasons, dates and indicators; the hold signal that            *)
(* detect_trading_signals synthesizes when no rule fires has no counterpart. *)
C7_ScanIsLatestBuySellConcat ==
    Scanned =>
       /\ signal_data =
             Flatten([n \in 1..(Len(df) - 30) |-> SelectSeq(LatestAt(29 + n), NotHold)])
       /\ \A n \in 1..Len(signal_data) : NotHold(signal_data[n])

(* A scan of 32 rows that found signals on one day while the other day, on   *)
(* its own, yields the synthesized hold signal.                              *)
C7_Witness ==
    /\ Scanned
    /\ Len(df) = 32
    /\ signal_data # <<>>
    /\ \E j \in 30..31 : LatestAt(j)[1].signal_type = "hold"
    /\ \E j \in 30..31 : Len(LatestAt(j)) > 1

(* The signal s of the given type may act on the current day *)
Passes(s, type) ==
    /\ s.signal_type = type
    /\ s.signal_date = current_date
    /\ InSeq(type, IF request.signal_types = None THEN <<"buy", "sell">>
                   ELSE request.signal_types)
    /\ s.signal_strength >= request.min_signal_strength

(* C8: in the signal_based strategy a position is opened on a day only if a *)
(* detected buy signal is dated that day, is of an allowed type and reaches  *)
(* min_signal_strength, and a position is closed by a sell only if a         *)
(* detected sell signal is; on a day without any such buy or sell signal no  *)
(* signal changes position, capital or trades.                               *)
C8_OnlyFilteredSignalsAct ==
    [][ request.strategy_type = "signal_based" =>
          /\ (position = None /\ position' # None) =>
                \E n \in 1..Len(signal_data) : Passes(signal_data[n], "buy")
          /\ (Len(trades') > Len(trades) /\ Last(trades').signal_type.how = "signal") =>
                \E n \in 1..Len(signal_data) : Passes(signal_data[n], "sell")
          /\ (/\ pc \in {"loop", "signals"}
              /\ i < Len(df)
              /\ ~ \E n \in 1..Len(signal_data) :
                      Passes(signal_data[n], "buy") \/ Passes(signal_data[n], "sell")) =>
                UNCHANGED <<position, capital, trades>>
      ]_vars

(* A position opened today by an allowed buy signal, while a sell signal of *)
(* today is outside the allow-list and an earlier buy signal was below the   *)
(* threshold.                                                                *)
C8_Witness ==
    /\ request.strategy_type = "signal_based"
    /\ pc = "hold"
    /\ position # None
    /\ Val(position).buy_date = current_date
    /\ buys = 1
    /\ trades = <<>>
    /\ \E n \in 1..Len(signal_data) :
          /\ signal_data[n].signal_type = "sell"
          /\ signal_data[n].signal_date = current_date
          /\ ~Passes(signal_data[n], "sell")
    /\ \E n \in 1..Len(signal_data) :
          /\ signal_data[n].signal_type = "buy"
          /\ signal_data[n].signal_strength < request.min_signal_strength

(* The returned metrics are the defaults of a run without trades *)
DefaultMetrics ==
    LET m == Val(result).metrics
    IN /\ m.total_trades = 0
       /\ m.final_capital = request.initial_capital
       /\ m.total_return = 0
       /\ RatEq(m.total_return_rate, Rat(0, 1))
       /\ RatEq(m.win_rate, Rat(0, 1))
       /\ RatEq(m.max_drawdown, Rat(0, 1))
       /\ m.annualized_return_rate = None
       /\ m.sharpe_ratio = None
       /\ m.profit_factor = None

(* C9 as stated: a backtest in which no trade is executed, be it for fewer  *)
(* than 30 data points, never raises and returns the default metrics.        *)
C9_ZeroTradesNeverRaise ==
    /\ pc # "raised"
    /\ (pc = "done" /\ Val(result).trades = <<>>) => DefaultMetrics

(* C9: a backtest in which no trade is executed on a series of at least one *)
(* data point (1 to 29 points, no detected signal, no signal passing the     *)
(* filter, no buy accepted) raises no exception and returns the default      *)
(* metrics; only the empty series raises.                                    *)
C9_ZeroTradesDefaultMetrics ==
    /\ pc = "raised" => df = <<>>
    /\ (pc = "done" /\ Val(result).trades = <<>>) => DefaultMetrics

(* A run over 31 rows or more that detected signals, executed no trade and  *)
(* returned with an equity curve.                                            *)
C9_Witness ==
    /\ pc = "done"
    /\ buys = 0
    /\ signal_data # <<>>
    /\ Val(result).trades = <<>>
    /\ Val(result).equity_curve # None

(* C10: with initial_capital 100000 and shares_per_trade 100, a run whose   *)
(* only trade buys at 50 and sells at 60 records profit 1000 and return_rate *)
(* 20.0 for it and reports final_capital 101000.                             *)
C10_Scenario ==
    (/\ pc = "done"
     /\ request.initial_capital = 100000
     /\ request.shares_per_trade = 100
     /\ Len(Val(result).trades) = 1
     /\ Val(result).trades[1].buy_price = 50
     /\ Val(result).trades[1].sell_price = 60)
    => /\ Val(result).trades[1].profit = 1000
       /\ RatEq(Val(result).trades[1].return_rate, Rat(20, 1))
       /\ Val(result).metrics.final_capital = 101000

(* The scenario, with the trade closed by a sell signal a day after the buy *)
C10_Witness ==
    /\ pc = "done"
    /\ request.initial_capital = 100000
    /\ request.shares_per_trade = 100
    /\ Len(Val(result).trades) = 1
    /\ Val(result).trades[1].buy_price = 50
    /\ Val(result).trades[1].sell_price = 60
    /\ Val(result).trades[1].hold_days = 1
    /\ Val(result).trades[1].signal_type.how \notin {"hold_days", "end"}

-----------------------------------------------------------------------------
(* Properties of the signal detector *)

(* The rule families that fire on the final day of d, by their conditions *)
MaRuleFires(d) ==
    LET latest == Last(d)
        prev == d[Len(d) - 1]
    IN \/ Gt(latest.ma5, latest.ma30) /\ Le(prev.ma5, prev.ma30)
       \/ Lt(latest.ma5, latest.ma30) /\ Ge(prev.ma5, prev.ma30)

RsiRuleFires(d) == Lt(Last(d).rsi, Some(30)) \/ Gt(Last(d).rsi, Some(70))

MacdRuleFires(d) ==
    LET latest == Last(d)
        prev == d[Len(d) - 1]
    IN \/ Gt(latest.macd, latest.macd_signal) /\ Le(prev.macd, prev.macd_signal)
       \/ Lt(latest.macd, latest.macd_signal) /\ Ge(prev.macd, prev.macd_signal)

FiredRules(d) ==
    (IF MaRuleFires(d) THEN 1 ELSE 0) + (IF RsiRuleFires(d) THEN 1 ELSE 0)
    + (IF MacdRuleFires(d) THEN 1 ELSE 0)

IsHold(s) == s.signal_type = "hold"
IsBuyOrSell(s) == s.signal_type \in {"buy", "sell"}

(* C11: detect_trading_signals returns the empty list iff the series has    *)
(* fewer than 30 points; otherwise the list is not empty, holds exactly one  *)
(* hold signal (and nothing else) when no MA-cross, RSI or MACD rule fires   *)
(* on the final day, and otherwise no hold signal and one buy or sell        *)
(* signal per rule that fires.                                               *)
C11_LatestSignals ==
    latest_signals # None =>
       \A n \in 1..2 :
          LET d == Val(frames)[n]
              out == Val(latest_signals)[n]
          IN /\ (out = <<>>) <=> (Len(d) < 30)
             /\ Len(d) >= 30 =>
                   /\ Len(SelectSeq(out, IsHold)) = (IF FiredRules(d) = 0 THEN 1 ELSE 0)
                   /\ Len(SelectSeq(out, IsBuyOrSell)) = FiredRules(d)
                   /\ Len(out) = (IF FiredRules(d) = 0 THEN 1 ELSE FiredRules(d))

(* One series ends on a day where no rule fires and yields the hold signal, *)
(* the other on a day where three rules fire.                                *)
C11_Witness ==
    /\ latest_signals # None
    /\ \E n \in 1..2 : /\ FiredRules(Val(frames)[n]) = 0
                       /\ Len(Val(frames)[n]) >= 30
                       /\ Val(latest_signals)[n][1].signal_type = "hold"
    /\ \E n \in 1..2 : /\ FiredRules(Val(frames)[n]) = 3
                       /\ Len(Val(latest_signals)[n]) = 3

(* Every signal the detector run has emitted so far, in either mode *)
Emitted ==
    (IF latest_signals = None THEN <<>>
     ELSE Val(latest_signals)[1] \o Val(latest_signals)[2])
    \o (IF scans = None THEN <<>> ELSE Val(scans)[1] \o Val(scans)[2])

(* C12: every signal that detect_trading_signals or                         *)
(* detect_trading_signals_for_backtest emits has a signal_strength within    *)
(* [0, 1] (0 to 1000 thousandths), the RSI-divergence boost and the MACD     *)
(* histogram bonuses included.                                               *)
C12_StrengthWithinUnit ==
    \A n \in 1..Len(Emitted) :
       /\ Emitted[n].signal_strength >= 0
       /\ Emitted[n].signal_strength <= 1000

(* Both modes have emitted an RSI signal whose divergence boost reached the *)
(* cap, and a MACD signal with both histogram bonuses.                       *)
C12_Witness ==
    /\ latest_signals # None
    /\ scans # None
    /\ \E n \in 1..2 : \E m \in 1..Len(Val(latest_signals)[n]) :
          LET g == Val(latest_signals)[n][m]
          IN g.signal_strength = 1000 /\ Len(g.signal_reason.text) = 2
             /\ g.indicators_used = <<"RSI">>
    /\ \E n \in 1..2 : \E m \in 1..Len(Val(scans)[n]) :
          LET g == Val(scans)[n][m]
          IN g.signal_strength = 1000 /\ Len(g.signal_reason.text) = 2
             /\ g.indicators_used = <<"RSI">>
    /\ \E m \in 1..Len(Emitted) :
          Emitted[m].indicators_used = <<"MACD">> /\ Emitted[m].signal_strength = 800

(* The signal s is dated on or before the last day the two series share *)
DatedWithinCut(s) == strptime(s.signal_date) <= prices[1][cut + 1].date

(* C13: no look-ahead. The two series agree on every point up to and        *)
(* including day cut: their indicator values agree on every such day, and    *)
(* detect_trading_signals_for_backtest returns the same signals dated on or  *)
(* before that day for both, whatever follows it.                            *)
C13_NoLookAhead ==
    /\ frames # None =>
          \A j \in 0..cut : Row(Val(frames)[1], j) = Row(Val(frames)[2], j)
    /\ scans # None =>
          SelectSeq(Val(scans)[1], DatedWithinCut) = SelectSeq(Val(scans)[2], DatedWithinCut)

(* Two series with different futures after a day that carries an MA-cross   *)
(* signal, both scanned.                                                     *)
C13_Witness ==
    /\ scans # None
    /\ Len(prices[1]) > cut + 1
    /\ Len(prices[2]) > cut + 1
    /\ prices[1][cut + 2] # prices[2][cut + 2]
    /\ \E m \in 1..Len(Val(scans)[1]) :
          /\ strptime(Val(scans)[1][m].signal_date) = prices[1][cut + 1].date
          /\ Val(scans)[1][m].indicators_used = <<"MA5", "MA30">>
    /\ \E m \in 1..Len(Val(scans)[2]) : ~DatedWithinCut(Val(scans)[2][m])

-----------------------------------------------------------------------------
(* Properties of the trade records and of the equity curve *)

(* C14: the trades carry trade_id 1, 2, ..., n in the order they were       *)
(* closed, whichever way they were closed, during the run and in the result. *)
C14_TradeIdsConsecutive ==
    /\ \A n \in 1..Len(trades) : trades[n].trade_id = n
    /\ (pc = "done" /\ result # None) =>
          \A n \in 1..Len(Val(result).trades) : Val(result).trades[n].trade_id = n

(* A result of two trades, the second one closed at the end of the series *)
C14_Witness ==
    /\ pc = "done"
    /\ Len(Val(result).trades) = 2
    /\ Val(result).trades[1].signal_type.how \notin {"hold_days", "end"}
    /\ Val(result).trades[2].signal_type.how = "end"

(* What the trades of ts bought (negative) and sold (positive) on a date *)
FlowOn(ts, date) ==
    SumSeq([n \in 1..Len(ts) |->
              (IF ts[n].sell_date = date THEN ts[n].sell_price * ts[n].shares ELSE 0)
              - (IF ts[n].buy_date = date THEN ts[n].buy_price * ts[n].shares ELSE 0)])

(* C15: the equity curve has one point for every calendar day of            *)
(* [start_date, end_date] in ascending order; counted from initial_capital,  *)
(* the capital of a point differs from the one before it by minus            *)
(* buy_price * shares for each trade bought and plus sell_price * shares for *)
(* each trade sold on its date, hence only on such a date.                   *)
C15_EquityCurvePoints ==
    (pc = "done" /\ Val(result).equity_curve # None) =>
       LET curve == Val(Val(result).equity_curve)
           ts == Val(result).trades
           start == strptime(request.start_date)
           end == strptime(request.end_date)
           Before(n) == IF n = 1 THEN request.initial_capital ELSE curve[n - 1].capital
       IN /\ Len(curve) = end - start + 1
          /\ \A n \in 1..Len(curve) :
                /\ curve[n].date = strftime(start + n - 1)
                /\ curve[n].capital = Before(n) + FlowOn(ts, curve[n].date)
                /\ (curve[n].capital # Before(n)) =>
                      \E m \in 1..Len(ts) :
                         ts[m].buy_date = curve[n].date \/ ts[m].sell_date = curve[n].date

(* A curve over two trades whose capital moves on the last day of the range *)
C15_Witness ==
    /\ pc = "done"
    /\ Val(result).equity_curve # None
    /\ Len(Val(result).trades) = 2
    /\ LET curve == Val(Val(result).equity_curve)
       IN /\ Len(curve) > 31
          /\ curve[Len(curve)].capital # curve[Len(curve) - 1].capital
          /\ curve[Len(curve) - 1].capital # curve[Len(curve) - 2].capital
          /\ curve[Len(curve)].date = request.end_date

-----------------------------------------------------------------------------
(* Properties of the batch analysis *)

(* The tasks whose analyze_stock is in progress: called, not yet ended *)
InProgress == {s \in 1..Len(stock_codes) : task[s].pc = "llm"}

(* analyze_stock has been called for the s-th stock code *)
Attempted(s) == task[s].pc = "llm" \/ task[s].outcome # None

(* C16: during batch_analyze_stocks at most max_concurrent executions of    *)
(* analyze_stock are in progress at the same time, whatever the             *)
(* interleaving of the tasks, and every stock code of the input is          *)
(* eventually attempted.                                                    *)
C16_BoundedConcurrency ==
    /\ [](Cardinality(InProgress) <= max_concurrent)
    /\ <>(\A s \in 1..Len(stock_codes) : Attempted(s))

(* The limiter is full and holds a task back *)
C16_Witness ==
    /\ Cardinality(InProgress) = max_concurrent
    /\ \E s \in 1..Len(stock_codes) : task[s].pc = "waiting"

(* analyze_stock returned for the s-th stock code / raised for it *)
Succeeded(s) == task[s].outcome # None /\ ~Val(task[s].outcome).raised
Failed(s) == task[s].outcome # None /\ Val(task[s].outcome).raised

(* The places of results that hold an analysis of stock_code *)
ResultsOf(stock_code) == {n \in 1..Len(results) : results[n].stock_code = stock_code}

(* C17: batch_analyze_stocks never raises because the analysis of one stock *)
(* raised; what it returns holds exactly one result, the analysis itself,   *)
(* for each stock whose analysis succeeded and none for each stock whose    *)
(* analysis failed.                                                         *)
C17_FailuresIsolated ==
    /\ bpc # "raised"
    /\ bpc = "returned" =>
          /\ \A s \in 1..Len(stock_codes) :
                /\ Succeeded(s) \/ Failed(s)
                /\ Succeeded(s) =>
                      /\ Cardinality(ResultsOf(stock_codes[s])) = 1
                      /\ \A n \in ResultsOf(stock_codes[s]) :
                            results[n] = Val(Val(task[s].outcome).value)
                /\ Failed(s) => ResultsOf(stock_codes[s]) = {}
          /\ Len(results) = Cardinality({s \in 1..Len(stock_codes) : Succeeded(s)})

(* A batch that returned although one analysis raised and another did not *)
C17_Witness ==
    /\ bpc = "returned"
    /\ \E s \in 1..Len(stock_codes) : Failed(s)
    /\ \E s \in 1..Len(stock_codes) : Succeeded(s)

-----------------------------------------------------------------------------
(* Properties of the overall assessment *)

(* 0.7 plus 0.1 for each of: MA5 and MA30 present, RSI present, at least    *)
(* one signal; never above 1.0                                              *)
StatedConfidence(a) ==
    Min(700 + (IF notna(a.technical_indicators.ma5) /\ notna(a.technical_indicators.ma30)
                 THEN 100 ELSE 0)
            + (IF notna(a.technical_indicators.rsi) THEN 100 ELSE 0)
            + (IF a.trading_signals # <<>> THEN 100 ELSE 0),
        1000)

(* C20: generate_overall_assessment never raises whatever the LLM does:     *)
(* when the LLM call raises or returns no usable content it returns the     *)
(* template fallback with confidence 0.6, and otherwise a confidence of 0.7 *)
(* plus 0.1 for each of (MA5 and MA30 present, RSI present, at least one    *)
(* signal), never above 1.0.                                                *)
C20_AssessmentConfidence ==
    \A s \in 1..Len(stock_codes) :
        task[s].llm # None =>
          /\ ~Val(task[s].outcome).raised
          /\ LET a == Val(Val(task[s].outcome).value)
             IN /\ a.confidence_score <= 1000
                /\ Val(task[s].llm) \in {"raises", "blank"} =>
                      /\ a.overall_assessment = FallbackAssessment(a.price_stats, a.risk_metrics)
                      /\ a.confidence_score = 600
                /\ Val(task[s].llm) = "content" =>
                      a.confidence_score = StatedConfidence(a)

-----------------------------------------------------------------------------
(* Properties of the recommendations *)

(* The place of the analysis of stock_code in the analysed list *)
PlaceOf(stock_code) ==
    CHOOSE n \in 1..Len(analyses) : analyses[n].stock_code = stock_code

(* C19: recommend_stocks returns only stocks whose score is at least        *)
(* min_recommendation_score, in non-increasing order of score, stocks of    *)
(* equal score in the order of the analysed list, with the ranks 1..n, and  *)
(* n <= max_stocks.                                                         *)
C19_RankedRecommendations ==
    /\ Len(recommendations) <= rec_request.max_stocks
    /\ \A n \in 1..Len(recommendations) :
          /\ recommendations[n].rank = n
          /\ \E m \in 1..Len(analyses) : analyses[m] = recommendations[n].analysis_summary
          /\ recommendations[n].recommendation_score =
                calculate_recommendation_score(recommendations[n].analysis_summary)
          /\ recommendations[n].recommendation_score >= rec_request.min_recommendation_score
    /\ \A n, m \in 1..Len(recommendations) :
          n < m =>
            /\ recommendations[n].recommendation_score >= recommendations[m].recommendation_score
            /\ recommendations[n].recommendation_score = recommendations[m].recommendation_score
                  => PlaceOf(recommendations[n].stock_code) < PlaceOf(recommendations[m].stock_code)

(* Returned recommendations with two stocks of equal score, in another     *)
(* order than the analysed list, and a stock left out                      *)
C19_Witness ==
    /\ rpc = "returned"
    /\ Len(analyses) > Len(recommendations)
    /\ \E n, m \in 1..Len(recommendations) :
          /\ n < m
          /\ recommendations[n].recommendation_score = recommendations[m].recommendation_score
    /\ \E n \in 1..Len(recommendations) :
          PlaceOf(recommendations[n].stock_code) # n

-----------------------------------------------------------------------------
(* Properties of the cancellation of a tracing task *)

(* C18: when the cancellation flag is found set at a check point,           *)
(* trace_news ends early and returns to its caller the partial results      *)
(* collected so far, the sources extracted from the messages gathered       *)
(* before the cancellation; the outcome is not a failure.                   *)
C18_CancelReturnsPartial ==
    cancel_point # None =>
        /\ tpc \in {"returning", "done"}
        /\ task_status # "failed"
        /\ trace_outcome # None
        /\ trace_outcome.kind = "returned"
        /\ trace_outcome.result.sources = extract_sources(all_messages)

-----------------------------------------------------------------------------
(* Properties of the trade statistics *)

(* The trades of ts that lost money *)
Losing(ts) == {n \in 1..Len(ts) : ts[n].profit < 0}

(* The trades of ts that made money *)
Winning(ts) == {n \in 1..Len(ts) : ts[n].profit > 0}

(* C23: in the metrics of a run with trades, successful_trades counts the   *)
(* trades with profit > 0, failed_trades counts the trades with profit < 0, *)
(* and win_rate = successful_trades / total_trades, zero-profit trades      *)
(* included.                                                                 *)
C23_TradeCounts ==
    (pc = "done" /\ result # None /\ trades # <<>>) =>
        LET m == Val(result).metrics
        IN /\ m.total_trades = Len(trades)
           /\ m.successful_trades = Cardinality(Winning(trades))
           /\ m.failed_trades = Cardinality(Losing(trades))
           /\ RatEq(m.win_rate, Rat(m.successful_trades, m.total_trades))

-----------------------------------------------------------------------------
(* Properties of the data fetch *)

(* The attempts (numbered from 1 in fetch_log) that returned a well-formed frame *)
WellFormed == {n \in 1..Len(fetch_log) : fetch_log[n].kind = "frame"}

(* d holds the rows of rows, each once, in ascending order of date *)
SortedCopy(d, rows) ==
    /\ Len(d) = Len(rows)
    /\ \A n \in 1..Len(rows) : \E m \in 1..Len(d) : d[m] = rows[n]
    /\ \A n \in 1..(Len(d) - 1) : d[n].date < d[n + 1].date

(* The waits of kind `at` made during attempt n (zero-based) *)
SleepsAt(n, at) == {m \in 1..Len(slept) : slept[m].attempt = n /\ slept[m].at = at}

FetchWithinRetries ==
    /\ Len(fetch_log) <= max_retries
    /\ fpc = "returned" =>
          /\ fetched # None
          /\ IF WellFormed # {}
             THEN /\ WellFormed = {Len(fetch_log)}
                  /\ SortedCopy(Val(fetched), fetch_log[Len(fetch_log)].rows)
             ELSE /\ Val(fetched) = <<>>
                  /\ akshare_available => Len(fetch_log) = max_retries
    /\ SleepsAt(0, "backoff") = {}
    /\ \A n \in 1..(Len(fetch_log) - 1) :
          /\ Cardinality(SleepsAt(n, "backoff")) = 1
          /\ \A m \in SleepsAt(n, "backoff") : slept[m].seconds = RequestDelay * (2 ^ n)

-----------------------------------------------------------------------------
(* Properties of the rising-market scenario *)

(* d is a series of ScenarioDays days whose close rises every day at a *)
(* constant volume                                                      *)
StrictlyRising(d) ==
    /\ Len(d) = ScenarioDays
    /\ \A n \in 1..(Len(d) - 1) : d[n].close < d[n + 1].close /\ d[n].volume = d[n + 1].volume

(* s is a golden-cross buy signal dated around day 30 *)
GoldenCrossNearDay30(s) ==
    /\ s.signal_type = "buy"
    /\ InSeq("golden cross", s.signal_reason.text)
    /\ \E j \in (MinPoints - 2)..(MinPoints + 2) : s.signal_date = strftime(df[j + 1].date)

(* C22: on a strictly rising 40-day close series with constant volume the   *)
(* signal detection yields a golden-cross (MA5 over MA30) buy signal around *)
(* day 30, and the backtester opens exactly one position and force-closes   *)
(* it at the final price with a positive profit.                            *)
C22_RisingScenario ==
    (pc = "done" /\ StrictlyRising(df)) =>
        /\ request.strategy_type = "signal_based" =>
              \E n \in 1..Len(signal_data) : GoldenCrossNearDay30(signal_data[n])
        /\ buys = 1
        /\ Len(trades) = 1
        /\ trades[1].signal_type.how = "end"
        /\ trades[1].sell_date = strftime(Last(df).date)
        /\ trades[1].sell_price = Last(df).close
        /\ trades[1].profit > 0

-----------------------------------------------------------------------------
(* Properties of the hold-days rule *)

(* The trades closed by the hold_days constraint *)
HoldDaysForced == {n \in 1..Len(trades) : trades[n].signal_type.how = "hold_days"}

(* C24: the hold_days constraint closes a position only once the maximum is *)
(* exceeded: every trade it closed has hold_days (the calendar days between *)
(* its buy and its sell) strictly greater than the hold_days of the request. *)
C24_ForcedOnlyWhenExceeded ==
    \A n \in HoldDaysForced : trades[n].hold_days > Val(request.hold_days)

-----------------------------------------------------------------------------
(* Properties of the hold signal *)

(* MA5 and MA30 of the last row of d are within 2% of each other *)
MasWithinTwoPercent(d) ==
    /\ notna(Last(d).ma5) /\ notna(Last(d).ma30)
    /\ 100 * Abs(Val(Last(d).ma5) - Val(Last(d).ma30)) < 2 * Val(Last(d).ma30)

(* The 5-day and the 20-day trend of the close of d point in different directions *)
TrendsDisagree(d) ==
    /\ Len(d) >= 20
    /\ TrendOver(d, 5) # TrendOver(d, 20)

(* The RSI of the last row of d is in [30, 70] *)
RsiNeutral(d) == Ge(Last(d).rsi, Some(30)) /\ Le(Last(d).rsi, Some(70))

(* C25: the hold signal of detect_trading_signals has strength 0.6 whenever *)
(* MA5 and MA30 are within 2% of each other or the 5-day and 20-day trend   *)
(* directions disagree; otherwise 0.55 when the RSI is in [30, 70];         *)
(* otherwise 0.5.                                                           *)
C25_HoldStrength ==
    latest_signals # None =>
       \A n \in 1..2 :
          LET d == Val(frames)[n]
              out == Val(latest_signals)[n]
          IN \A m \in 1..Len(out) :
                out[m].signal_type = "hold" =>
                    out[m].signal_strength =
                        (IF MasWithinTwoPercent(d) \/ TrendsDisagree(d) THEN 600
                         ELSE IF RsiNeutral(d) THEN 550
                         ELSE 500)

-----------------------------------------------------------------------------
(* Properties of the cooperative cancellation *)

(* The cancel endpoint has set the flag of the task *)
CancelRequested == task_cancelled = Some(TRUE)

(* The awaits of trace_news that call the LLM *)
ExternalCalls == {"llm"} \cup {Phases[n] : n \in 1..Len(Phases)}

(* The step starts an LLM iteration or one of the four extractions *)
CallStarts ==
    /\ tpc' \in ExternalCalls
    /\ <<tpc', iteration'>> # <<tpc, iteration>>

(* C26: once check_cancelled() returns True, trace_news starts no further   *)
(* external call (no LLM iteration and no timeline, causal-relation,        *)
(* knowledge-graph or hierarchy extraction): at most the call in flight     *)
(* completes before the job aborts.                                         *)
C26_NoCallAfterCancel == [][CallStarts => ~CancelRequested]_vars

(* The cancel arrived during the causal-relation extraction, which was left *)
(* to complete; the check after it ended the job                            *)
C26_Witness ==
    /\ cancel_point = Some("causal")
    /\ CancelRequested
    /\ tpc = "returning"

-----------------------------------------------------------------------------
(* Properties of the task status *)

(* C27: once the cancel endpoint has set the status of the task to          *)
(* 'cancelled', the status never changes again, whatever the interleaving   *)
(* of the cancel request with the background worker.                        *)
C27_CancelledIsFinal == [][task_status = "cancelled" => task_status' = "cancelled"]_vars

-----------------------------------------------------------------------------
(* Properties of the order of the trades *)

(* C28: the trades are chronological and never overlap: within each trade   *)
(* buy_date <= sell_date, and the buy_date of each trade is not earlier     *)
(* than the sell_date of the trade before it.                               *)
C28_TradesChronological ==
    /\ \A n \in 1..Len(trades) : strptime(trades[n].buy_date) <= strptime(trades[n].sell_date)
    /\ \A n \in 1..(Len(trades) - 1) :
          strptime(trades[n].sell_date) <= strptime(trades[n + 1].buy_date)
    /\ result # None /\ Val(result).trades # <<>> => Val(result).trades = trades

(* A finished run with two trades, the first held for some days and the *)
(* second bought on the day the first was sold                          *)
C28_Witness ==
    /\ pc = "done"
    /\ Len(Val(result).trades) = 2
    /\ trades[1].hold_days > 0
    /\ trades[1].sell_date = trades[2].buy_date

-----------------------------------------------------------------------------
(* Properties of the final capital *)

(* Every trade was bought and sold within the period of the request *)
TradesWithinPeriod ==
    \A n \in 1..Len(trades) :
        /\ strptime(request.start_date) <= strptime(trades[n].buy_date)
        /\ strptime(trades[n].sell_date) <= strptime(request.end_date)

(* C29: for a run with at least one trade whose trade dates all lie within  *)
(* [start_date, end_date], the running capital of the ledger after the      *)
(* final close, metrics.final_capital (initial_capital plus the sum of the  *)
(* trade profits) and the capital of the last equity-curve point agree.     *)
C29_FinalCapitalAgrees ==
    (pc = "done" /\ result # None /\ trades # <<>> /\ TradesWithinPeriod) =>
        /\ Val(result).metrics.final_capital = capital
        /\ Last(Val(Val(result).equity_curve)).capital = capital
        /\ capital = request.initial_capital
                       + SumSeq([n \in 1..Len(trades) |-> trades[n].profit])

(* A finished run with two trades, the first one at a loss and the second *)
(* one closed on the last day of the period                                *)
C29_Witness ==
    /\ pc = "done"
    /\ Len(trades) = 2
    /\ TradesWithinPeriod
    /\ trades[1].profit < 0
    /\ trades[2].sell_date = request.end_date
    /\ Val(result).metrics.final_capital # request.initial_capital

-----------------------------------------------------------------------------
(* Properties of the Sharpe ratio *)

(* All the trades of ts have the same return rate *)
EqualRates(ts) == \A a, b \in 1..Len(ts) : RatEq(ts[a].return_rate, ts[b].return_rate)

====
